---- MODULE Spec2Model ----
(***************************************************************************)
(* A model of the phys-rs world: the bit-packed cell store, the broadphase *)
(* grid with reference-counted pairs, the player kinematic state machine,  *)
(* terrain correction and the fixed order of the steps of World::update.   *)
(*                                                                         *)
(* Numbers.  Coordinates are i32 values far from the i32 limits.  The f32  *)
(* quantities of BodyPlayer are kept exactly: force_x only takes the       *)
(* values 0, +-375, +-750; the elapsed time of a tick is a whole number of *)
(* eighths of a second, given here in milliseconds (125, 250, ...), so     *)
(* that delta * 1000.0, force_x * delta and the squares of the timers are  *)
(* exactly representable, and (0.001f32 * t^2) as i32 is t^2 \div 1000     *)
(* for every timer value the bounds allow.                                 *)
(***************************************************************************)
EXTENDS Integers, Sequences, FiniteSets, TLC

(***************************************************************************)
(* Bounds of the model.                                                    *)
(***************************************************************************)
WidthBlocks == 9
HeightBlocks == 4
MaxBodies == 2
MaxPlayers == 1
MaxTicks == 3
MaxBlocks == 2
MaxJumpTime == 1200
TimeStep == 50
MaxSmallId == 30
MaxCrowd == 3

(***************************************************************************)
(* Program constants.                                                      *)
(***************************************************************************)
BLOCK_SIZE == 128
BLOCK_HALF_SIZE == BLOCK_SIZE \div 2
TARGET_BITS == 64
EMPTY_REGION == 0
BODY_ITEM_WIDTH == 64
BODY_ITEM_HALF_WIDTH == BODY_ITEM_WIDTH \div 2
BODY_ITEM_HEIGHT == 64
BODY_PLAYER_WIDTH == 64
BODY_PLAYER_HALF_WIDTH == BODY_PLAYER_WIDTH \div 2
BODY_PLAYER_HEIGHT == 208
BODY_PLAYER_JUMP_DISTANCE == 160
BODY_PLAYER_JUMP_COEF == 400
BODY_PLAYER_MOVE_SPEED == 750
\* BODY_PLAYER_GRAVITY is 0.001: a product with it is a division by this.
BODY_PLAYER_GRAVITY_INV == 1000

\* the greatest body id, 2^26 - 1
MAX_BODY_ID == 67108863

BodyClass == <<"Fixed", "Sensor", "Player", "Ray", "Item", "Bullet">>
BodyClasses == { BodyClass[i] : i \in 1..6 }
BODIES_CATEGORIES == <<1, 2, 4, 8, 16, 32>>
\* BODIES_FILTERS with a Bullet that does not accept Fixed
BODIES_FILTERS_BulletNoFixed == <<60, 4, 59, 5, 5, 4>>
BODIES_FILTERS == <<60, 4, 59, 5, 5, 5>>

(***************************************************************************)
(* Integer helpers: the i32 operators of the source.                       *)
(***************************************************************************)
Abs(v) == IF v < 0 THEN -v ELSE v
Min(a, b) == IF a < b THEN a ELSE b
Max(a, b) == IF a > b THEN a ELSE b
\* `/` and `%` of Rust and `as i32` of an f32 truncate toward zero
TruncDiv(a, b) == IF a >= 0 THEN a \div b ELSE -((-a) \div b)
TruncRem(a, b) == a - b * TruncDiv(a, b)
\* `>>` on i32 is an arithmetic shift: the floor of the quotient
Shr(v, k) == v \div (2 ^ k)
Shl(v, k) == v * (2 ^ k)

RECURSIVE BitAnd(_, _)
BitAnd(a, b) ==
  IF a = 0 \/ b = 0 THEN 0
  ELSE (a % 2) * (b % 2) + 2 * BitAnd(a \div 2, b \div 2)

\* every order in which a hash map or hash set may yield its elements
Orders(S) ==
  { s \in [1..Cardinality(S) -> S] :
      \A i, j \in 1..Cardinality(S) : i # j => s[i] # s[j] }

(***************************************************************************)
(* engine.rs: Bounds, Rect, get_bounds_intersection                        *)
(***************************************************************************)
Bounds(min_x, max_x, min_y, max_y) ==
  [min_x |-> min_x, max_x |-> max_x, min_y |-> min_y, max_y |-> max_y]

Rect_new(id, class, x, y, half_width, height) ==
  [id |-> id, class |-> class,
   bounds |-> Bounds(x - half_width, x + half_width, y - height, y),
   regions |-> <<0, 0, 0, 0>>,
   is_updated |-> FALSE]

get_bounds_intersection(bounds1, bounds2) ==
  [x |-> Min(bounds1.max_x, bounds2.max_x) - Max(bounds1.min_x, bounds2.min_x),
   y |-> Min(bounds1.max_y, bounds2.max_y) - Max(bounds1.min_y, bounds2.min_y)]

(***************************************************************************)
(* cells.rs: the cell store.  busy and blocks are the sets of the bit      *)
(* indices (pos * TARGET_BITS + bit) that are set in the two word vectors. *)
(***************************************************************************)
CellsWidth == WidthBlocks
CellsHeight == HeightBlocks
\* Cells::new: the number of words of each vector
CellsSize == (CellsWidth * CellsHeight + TARGET_BITS - 1) \div TARGET_BITS

\* CellIndex with rows as long as the grid is high
CellIndex_ByHeight(x, y) == y * CellsHeight + x

CellIndex(x, y) == y * CellsWidth + x

\* set_block indexes busy[pos] and blocks[pos]: a negative index becomes a
\* huge usize, and any pos beyond the vectors is an out-of-bounds panic
set_block_panics(x, y) ==
  LET index == CellIndex(x, y)
  IN  index < 0 \/ index \div TARGET_BITS >= CellsSize

set_block(bits, x, y, state) ==
  LET index == CellIndex(x, y)
      pos == index \div TARGET_BITS
      bit == index % TARGET_BITS
  IN  IF state THEN bits \cup {pos * TARGET_BITS + bit}
      ELSE bits \ {pos * TARGET_BITS + bit}

\* CellOutOfBounds with the comparisons of block_create
CellOutOfBounds_Loose(x, y) ==
  x < 0 \/ x > CellsWidth \/ y < 0 \/ y > CellsHeight

CellOutOfBounds(x, y) ==
  x < 0 \/ x >= CellsWidth \/ y < 0 \/ y >= CellsHeight

is_busy(busy, x, y) ==
  IF CellOutOfBounds(x, y) THEN TRUE ELSE CellIndex(x, y) \in busy

is_block(blocks, x, y) ==
  IF CellOutOfBounds(x, y) THEN TRUE ELSE CellIndex(x, y) \in blocks

\* can_build that does not look at the neighbour below
can_build_ThreeSides(busy, blocks, x, y) ==
  /\ ~is_busy(busy, x, y)
  /\ \/ is_block(blocks, x - 1, y)
     \/ is_block(blocks, x + 1, y)
     \/ is_block(blocks, x, y - 1)

\* can_build that does not look at the cell itself
can_build_AnyCell(busy, blocks, x, y) ==
  \/ is_block(blocks, x - 1, y)
  \/ is_block(blocks, x + 1, y)
  \/ is_block(blocks, x, y - 1)
  \/ is_block(blocks, x, y + 1)

can_build(busy, blocks, x, y) ==
  /\ ~is_busy(busy, x, y)
  /\ \/ is_block(blocks, x - 1, y)
     \/ is_block(blocks, x + 1, y)
     \/ is_block(blocks, x, y - 1)
     \/ is_block(blocks, x, y + 1)

(***************************************************************************)
(* grid.rs: pair ids, the class filter, regions                            *)
(***************************************************************************)
\* get_pair_id with the second id added in both branches
get_pair_id_SecondAdded(id1, id2) ==
  IF id1 < id2 THEN Shl(id1, 26) + id2 ELSE Shl(id2, 26) + id2

get_pair_id(id1, id2) ==
  IF id1 < id2 THEN Shl(id1, 26) + id2 ELSE Shl(id2, 26) + id1

ClassIndex(class) == CHOOSE i \in 1..6 : BodyClass[i] = class

can_collide(class1, class2) ==
  IF class1 = class2 THEN FALSE
  ELSE BitAnd(BODIES_CATEGORIES[ClassIndex(class1)],
              BODIES_FILTERS[ClassIndex(class2)]) # 0

\* the region ids in the order the two nested loops write them
RegionList(bounds) ==
  LET min_x == Shr(bounds.min_x, 10) + 1
      max_x == Shr(bounds.max_x, 10) + 1
      min_y == Shr(bounds.min_y, 10)
      max_y == Shr(bounds.max_y, 10)
      ny == max_y - min_y + 1
      n == (max_x - min_x + 1) * ny
  IN  [k \in 1..n |->
         Shl(min_y + ((k - 1) % ny), 16) + (min_x + ((k - 1) \div ny))]

\* a fifth region would be a write past the 4-slot array
get_regions_by_bounds_panics(bounds) == Len(RegionList(bounds)) > 4

get_regions_by_bounds(bounds) ==
  LET l == RegionList(bounds)
  IN  [k \in 1..4 |-> IF k <= Len(l) THEN l[k] ELSE 0]

\* the slots the loops of Grid visit: those before the first EMPTY_REGION
RECURSIVE UsedFrom(_, _)
UsedFrom(regions, k) ==
  IF k > Len(regions) \/ regions[k] = EMPTY_REGION THEN <<>>
  ELSE <<regions[k]>> \o UsedFrom(regions, k + 1)

UsedRegions(regions) == UsedFrom(regions, 1)

Contains(regions, region) == \E k \in 1..Len(regions) : regions[k] = region

(***************************************************************************)
(* grid.rs: Grid.  A grid value is [pairs, hash, panic]: pairs maps a pair *)
(* id to its Pair, hash maps a region id to its bucket, and panic records  *)
(* that an unwrap() of a missing record or bucket was reached.             *)
(***************************************************************************)
GridAbort(g) == [g EXCEPT !.panic = TRUE]

\* the body of the loop of add_to_pairs over one region
add_to_pairs_region(g, region, id, rs) ==
  IF g.panic \/ id \notin DOMAIN rs \/ region \notin DOMAIN g.hash
  THEN GridAbort(g)
  ELSE
    LET others == g.hash[region] \ {id}
        hits == { o \in others \cap DOMAIN rs :
                    can_collide(rs[id].class, rs[o].class) }
        hit_ids == { get_pair_id(id, o) : o \in hits }
    IN  IF \E o \in others : o \notin DOMAIN rs
        THEN GridAbort(g)
        ELSE [g EXCEPT !.pairs =
               [p \in DOMAIN g.pairs \cup hit_ids |->
                  IF p \in DOMAIN g.pairs
                  THEN IF p \in hit_ids
                       THEN [g.pairs[p] EXCEPT !.count = @ + 1]
                       ELSE g.pairs[p]
                  ELSE [id1 |-> id,
                        id2 |-> CHOOSE o \in hits : get_pair_id(id, o) = p,
                        count |-> 1]]]

RECURSIVE add_to_pairs_from(_, _, _, _, _)
add_to_pairs_from(g, regions, k, id, rs) ==
  IF k > Len(regions) \/ regions[k] = EMPTY_REGION THEN g
  ELSE add_to_pairs_from(add_to_pairs_region(g, regions[k], id, rs),
                         regions, k + 1, id, rs)

add_to_pairs(g, regions, id, rs) ==
  IF id \notin DOMAIN rs THEN GridAbort(g)
  ELSE add_to_pairs_from(g, regions, 1, id, rs)

\* what remove_from_pairs does to a pair whose count it meets
pair_released(pair) == pair.count = 1

\* the body of the loop of remove_from_pairs over one region
remove_from_pairs_region(g, region, id) ==
  IF g.panic \/ region \notin DOMAIN g.hash
  THEN GridAbort(g)
  ELSE
    LET met == { get_pair_id(id, o) : o \in g.hash[region] }
                  \cap DOMAIN g.pairs
        gone == { p \in met : pair_released(g.pairs[p]) }
    IN  [g EXCEPT !.pairs =
          [p \in DOMAIN g.pairs \ gone |->
             IF p \in met THEN [g.pairs[p] EXCEPT !.count = @ - 1]
             ELSE g.pairs[p]]]

RECURSIVE remove_from_pairs_from(_, _, _, _)
remove_from_pairs_from(g, regions, k, id) ==
  IF k > Len(regions) \/ regions[k] = EMPTY_REGION THEN g
  ELSE remove_from_pairs_from(remove_from_pairs_region(g, regions[k], id),
                              regions, k + 1, id)

remove_from_pairs(g, regions, id) == remove_from_pairs_from(g, regions, 1, id)

\* hash.entry(region) created when absent, then the id inserted
BucketInsert(hash, region, id) ==
  [r \in DOMAIN hash \cup {region} |->
     IF r = region
     THEN (IF r \in DOMAIN hash THEN hash[r] ELSE {}) \cup {id}
     ELSE hash[r]]

RECURSIVE BucketInsertAll(_, _, _)
BucketInsertAll(hash, regions, id) ==
  IF regions = <<>> THEN hash
  ELSE BucketInsertAll(BucketInsert(hash, Head(regions), id),
                       Tail(regions), id)

\* hash.get_mut(region).unwrap().remove(id) for each of the regions
BucketRemoveAll(g, regions, id) ==
  IF \E k \in 1..Len(regions) : regions[k] \notin DOMAIN g.hash
  THEN GridAbort(g)
  ELSE [g EXCEPT !.hash =
         [r \in DOMAIN g.hash |->
            IF Contains(regions, r) THEN g.hash[r] \ {id} ELSE g.hash[r]]]

\* the regions of `from` (up to its first empty slot) that `other` lacks
RegionsDiff(from, other) ==
  LET used == UsedRegions(from)
      kept == SelectSeq(used, LAMBDA r : ~Contains(other, r))
  IN  [k \in 1..4 |-> IF k <= Len(kept) THEN kept[k] ELSE 0]

\* Grid::add; the result is the new grid and the new rects
Grid_add(g, id, rs) ==
  IF id \notin DOMAIN rs \/ get_regions_by_bounds_panics(rs[id].bounds)
  THEN [grid |-> GridAbort(g), rects |-> rs]
  ELSE
    LET regions == get_regions_by_bounds(rs[id].bounds)
        rs1 == [rs EXCEPT ![id].regions = regions]
        g1 == [g EXCEPT !.hash = BucketInsertAll(@, UsedRegions(regions), id)]
    IN  [grid |-> add_to_pairs(g1, regions, id, rs1), rects |-> rs1]

\* Grid::update
Grid_update(g, id, rs) ==
  IF id \notin DOMAIN rs THEN [grid |-> GridAbort(g), rects |-> rs]
  ELSE IF ~rs[id].is_updated THEN [grid |-> g, rects |-> rs]
  ELSE IF get_regions_by_bounds_panics(rs[id].bounds)
  THEN [grid |-> GridAbort(g), rects |-> rs]
  ELSE
    LET rs0 == [rs EXCEPT ![id].is_updated = FALSE]
        new_regions == get_regions_by_bounds(rs[id].bounds)
        old_regions == rs[id].regions
    IN  IF new_regions = old_regions THEN [grid |-> g, rects |-> rs0]
        ELSE
          LET rs1 == [rs0 EXCEPT ![id].regions = new_regions]
              regions_to_remove == RegionsDiff(old_regions, new_regions)
              regions_to_add == RegionsDiff(new_regions, old_regions)
              g1 == BucketRemoveAll(g, UsedRegions(regions_to_remove), id)
              g2 == IF regions_to_remove[1] # EMPTY_REGION
                    THEN remove_from_pairs(g1, regions_to_remove, id)
                    ELSE g1
              g3 == [g2 EXCEPT !.hash =
                       BucketInsertAll(@, UsedRegions(regions_to_add), id)]
              g4 == IF regions_to_add[1] # EMPTY_REGION
                    THEN add_to_pairs(g3, regions_to_add, id, rs1)
                    ELSE g3
          IN  [grid |-> g4, rects |-> rs1]

\* Grid::remove
Grid_remove(g, rect) ==
  remove_from_pairs(BucketRemoveAll(g, UsedRegions(rect.regions), rect.id),
                    rect.regions, rect.id)

(***************************************************************************)
(* body/player.rs: BodyPlayer                                              *)
(***************************************************************************)
BodyPlayer_new(x, y) ==
  [x |-> x, y |-> y, prev_x |-> x, prev_y |-> y, force_x |-> 0,
   last_ground_y |-> y, is_jump |-> FALSE, jump_timer |-> 0,
   jump_x_decreased |-> FALSE, jump_x_setted |-> FALSE,
   is_fall |-> FALSE, fall_timer |-> 0, move_dir_y |-> 0,
   is_on_ground |-> FALSE, move_state |-> "None",
   current_tick_corrected |-> FALSE]

direction_num(direction) ==
  CASE direction = "None" -> 0
    [] direction = "Left" -> -1
    [] direction = "Right" -> 1

\* BodyPlayer::run
run(body, direction) ==
  IF body.move_state = direction THEN body
  ELSE
    LET b1 == [body EXCEPT !.move_state = direction]
    IN  IF ~b1.is_on_ground
        THEN IF ~b1.jump_x_setted
             THEN [b1 EXCEPT !.jump_x_setted = TRUE,
                             !.jump_x_decreased = TRUE,
                             !.force_x = (BODY_PLAYER_MOVE_SPEED
                                          * direction_num(direction)) \div 2]
             ELSE b1
        ELSE [b1 EXCEPT !.force_x =
                BODY_PLAYER_MOVE_SPEED * direction_num(direction)]

\* jump that leaves is_on_ground set
jump_KeepsGround(body) ==
  IF ~body.is_on_ground THEN body
  ELSE [body EXCEPT !.is_jump = TRUE,
                    !.jump_timer = 0,
                    !.last_ground_y = body.y,
                    !.jump_x_setted = (body.move_state # "None")]

\* jump with no test of is_on_ground
jump_InTheAir(body) ==
  [body EXCEPT !.is_jump = TRUE,
               !.jump_timer = 0,
               !.last_ground_y = body.y,
               !.is_on_ground = FALSE,
               !.jump_x_setted = (body.move_state # "None")]

\* BodyPlayer::jump
jump(body) ==
  IF ~body.is_on_ground THEN body
  ELSE [body EXCEPT !.is_jump = TRUE,
                    !.jump_timer = 0,
                    !.last_ground_y = body.y,
                    !.is_on_ground = FALSE,
                    !.jump_x_setted = (body.move_state # "None")]

\* update_correction that, on landing with no intent held, keeps force_x
update_correction_KeepsForce(body, correction) ==
  LET b1 == [body EXCEPT !.current_tick_corrected = TRUE]
      b2 == IF correction.x # 0 /\ ~b1.is_on_ground /\ ~b1.jump_x_decreased
            THEN [b1 EXCEPT !.force_x = TruncDiv(@, 2),
                            !.jump_x_decreased = TRUE]
            ELSE b1
  IN  IF correction.y < 0
      THEN LET b3 == [b2 EXCEPT !.is_on_ground = TRUE,
                                !.is_jump = FALSE,
                                !.jump_timer = 0,
                                !.jump_x_decreased = FALSE,
                                !.jump_x_setted = FALSE,
                                !.is_fall = FALSE,
                                !.fall_timer = 0]
           IN  IF b3.move_state = "None"
               THEN b3
               ELSE run([b3 EXCEPT !.move_state = "None"], b3.move_state)
      ELSE IF correction.y > 0
      THEN [b2 EXCEPT !.is_jump = FALSE, !.jump_timer = 0]
      ELSE [b2 EXCEPT !.is_on_ground = FALSE]

\* update_correction that, on landing with an intent held, does not run again
update_correction_NoRerun(body, correction) ==
  LET b1 == [body EXCEPT !.current_tick_corrected = TRUE]
      b2 == IF correction.x # 0 /\ ~b1.is_on_ground /\ ~b1.jump_x_decreased
            THEN [b1 EXCEPT !.force_x = TruncDiv(@, 2),
                            !.jump_x_decreased = TRUE]
            ELSE b1
  IN  IF correction.y < 0
      THEN LET b3 == [b2 EXCEPT !.is_on_ground = TRUE,
                                !.is_jump = FALSE,
                                !.jump_timer = 0,
                                !.jump_x_decreased = FALSE,
                                !.jump_x_setted = FALSE,
                                !.is_fall = FALSE,
                                !.fall_timer = 0]
           IN  IF b3.move_state = "None"
               THEN [b3 EXCEPT !.force_x = 0]
               ELSE b3
      ELSE IF correction.y > 0
      THEN [b2 EXCEPT !.is_jump = FALSE, !.jump_timer = 0]
      ELSE [b2 EXCEPT !.is_on_ground = FALSE]

\* BodyPlayer::update_correction
update_correction(body, correction) ==
  LET b1 == [body EXCEPT !.current_tick_corrected = TRUE]
      b2 == IF correction.x # 0 /\ ~b1.is_on_ground /\ ~b1.jump_x_decreased
            THEN [b1 EXCEPT !.force_x = TruncDiv(@, 2),
                            !.jump_x_decreased = TRUE]
            ELSE b1
  IN  IF correction.y < 0
      THEN LET b3 == [b2 EXCEPT !.is_on_ground = TRUE,
                                !.is_jump = FALSE,
                                !.jump_timer = 0,
                                !.jump_x_decreased = FALSE,
                                !.jump_x_setted = FALSE,
                                !.is_fall = FALSE,
                                !.fall_timer = 0]
           IN  IF b3.move_state = "None"
               THEN [b3 EXCEPT !.force_x = 0]
               ELSE run([b3 EXCEPT !.move_state = "None"], b3.move_state)
      ELSE IF correction.y > 0
      THEN [b2 EXCEPT !.is_jump = FALSE, !.jump_timer = 0]
      ELSE [b2 EXCEPT !.is_on_ground = FALSE]

\* after_update that promotes to falling only players with no correction
after_update_UncorrectedOnly(body) ==
  IF body.current_tick_corrected THEN body
  ELSE
    LET b1 == [body EXCEPT !.is_on_ground = FALSE]
    IN  IF ~b1.is_jump /\ ~b1.is_fall
        THEN LET b2 == [b1 EXCEPT !.is_fall = TRUE,
                                  !.fall_timer = 0,
                                  !.last_ground_y = b1.y,
                                  !.jump_x_setted = (b1.move_state # "None")]
             IN  IF b2.move_state = "None" THEN b2
                 ELSE [b2 EXCEPT !.force_x = BODY_PLAYER_MOVE_SPEED
                                             * direction_num(b2.move_state)]
        ELSE b1

\* BodyPlayer::after_update
after_update(body) ==
  LET b1 == IF ~body.current_tick_corrected
            THEN [body EXCEPT !.is_on_ground = FALSE]
            ELSE body
  IN  IF ~b1.is_on_ground /\ ~b1.is_jump /\ ~b1.is_fall
      THEN LET b2 == [b1 EXCEPT !.is_fall = TRUE,
                                !.fall_timer = 0,
                                !.last_ground_y = b1.y,
                                !.jump_x_setted = (b1.move_state # "None")]
           IN  IF b2.move_state = "None" THEN b2
               ELSE [b2 EXCEPT !.force_x = BODY_PLAYER_MOVE_SPEED
                                           * direction_num(b2.move_state)]
      ELSE b1

\* BodyPlayer::update_rect
update_rect(body, rect) ==
  [rect EXCEPT !.bounds = Bounds(body.x - BODY_PLAYER_HALF_WIDTH,
                                 body.x + BODY_PLAYER_HALF_WIDTH,
                                 body.y - BODY_PLAYER_HEIGHT,
                                 body.y)]

\* JumpOffset with the product rounded to the nearest integer
JumpOffset_Rounded(t) ==
  ((t - BODY_PLAYER_JUMP_COEF) * (t - BODY_PLAYER_JUMP_COEF) + 500)
     \div BODY_PLAYER_GRAVITY_INV - BODY_PLAYER_JUMP_DISTANCE

\* the height of a jump at jump_timer t, relative to last_ground_y
JumpOffset(t) ==
  ((t - BODY_PLAYER_JUMP_COEF) * (t - BODY_PLAYER_JUMP_COEF))
     \div BODY_PLAYER_GRAVITY_INV - BODY_PLAYER_JUMP_DISTANCE

\* the height of a fall at fall_timer t, relative to last_ground_y
FallOffset(t) == (t * t) \div BODY_PLAYER_GRAVITY_INV

\* the y += 1 of a grounded body at the start of <BodyPlayer as Body>::update
GroundNudge == 1

\* <BodyPlayer as Body>::update; dt is the elapsed time in milliseconds.
\* The result is the new body and the new rect.
BodyPlayer_update(body, dt, rect) ==
  LET b0 == [body EXCEPT !.current_tick_corrected = FALSE]
      b1 == IF b0.is_on_ground THEN [b0 EXCEPT !.y = @ + GroundNudge] ELSE b0
      b2 == IF b1.force_x # 0
            THEN [b1 EXCEPT !.x = @ + TruncDiv(b1.force_x * dt, 1000)]
            ELSE b1
      b3 == [b2 EXCEPT !.move_dir_y = 0]
      b4 == IF b3.is_jump
            THEN LET t == b3.jump_timer + dt
                 IN  [b3 EXCEPT !.jump_timer = t,
                                !.y = b3.last_ground_y + JumpOffset(t),
                                !.move_dir_y =
                                  IF t - BODY_PLAYER_JUMP_COEF > 0
                                  THEN 1 ELSE -1]
            ELSE b3
      b5 == IF b4.is_fall
            THEN LET t == b4.fall_timer + dt
                 IN  [b4 EXCEPT !.fall_timer = t,
                                !.y = b4.last_ground_y + FallOffset(t),
                                !.move_dir_y = 1]
            ELSE b4
      updated == \/ rect.is_updated
                 \/ b0.is_on_ground \/ b1.force_x # 0
                 \/ b3.is_jump \/ b4.is_fall
      r1 == [rect EXCEPT !.is_updated = updated]
  IN  [body |-> b5, rect |-> IF updated THEN update_rect(b5, r1) ELSE r1]

(***************************************************************************)
(* body/item.rs: BodyItem                                                  *)
(***************************************************************************)
BodyItem_new(x, y) ==
  [x |-> x, y |-> y, move_dir_y |-> 0, is_on_ground |-> FALSE]

(***************************************************************************)
(* engine.rs: update_correct_players, for one player                       *)
(***************************************************************************)
BlockBounds(x_cell, y_cell) ==
  Bounds(x_cell * BLOCK_SIZE, x_cell * BLOCK_SIZE + BLOCK_SIZE,
         y_cell * BLOCK_SIZE, y_cell * BLOCK_SIZE + BLOCK_SIZE)

PrevBounds(body) ==
  Bounds(body.prev_x - BODY_PLAYER_HALF_WIDTH,
         body.prev_x + BODY_PLAYER_HALF_WIDTH,
         body.prev_y - BODY_PLAYER_HEIGHT,
         body.prev_y)

\* the block at the cell takes part: it is a block and truly overlaps
BlockOverlaps(blocks, rect, x_cell, y_cell) ==
  LET intersection ==
        get_bounds_intersection(rect.bounds, BlockBounds(x_cell, y_cell))
  IN  /\ is_block(blocks, x_cell, y_cell)
      /\ ~(intersection.x <= 0 \/ intersection.y <= 0)

\* BlockCorrection whose fallback keeps correction_x whatever force_x is
BlockCorrection_FallbackKeepsX(body, rect, x_cell, y_cell) ==
  LET block_bounds == BlockBounds(x_cell, y_cell)
      intersection == get_bounds_intersection(rect.bounds, block_bounds)
      correction_y == IF rect.bounds.max_y < block_bounds.max_y
                      THEN -intersection.y ELSE intersection.y
      correction_x == IF body.x < x_cell * BLOCK_SIZE + BLOCK_HALF_SIZE
                      THEN -intersection.x ELSE intersection.x
      prev_intersection ==
        get_bounds_intersection(PrevBounds(body), block_bounds)
  IN  IF prev_intersection.x > 0
      THEN [x |-> 0, y |-> correction_y]
      ELSE IF prev_intersection.y > 0
      THEN [x |-> correction_x, y |-> 0]
      ELSE [x |-> correction_x,
            y |-> IF body.is_fall \/ body.is_jump THEN 0 ELSE correction_y]

\* correction_x and correction_y of one overlapping block
BlockCorrection(body, rect, x_cell, y_cell) ==
  LET block_bounds == BlockBounds(x_cell, y_cell)
      intersection == get_bounds_intersection(rect.bounds, block_bounds)
      correction_y == IF rect.bounds.max_y < block_bounds.max_y
                      THEN -intersection.y ELSE intersection.y
      correction_x == IF body.x < x_cell * BLOCK_SIZE + BLOCK_HALF_SIZE
                      THEN -intersection.x ELSE intersection.x
      prev_intersection ==
        get_bounds_intersection(PrevBounds(body), block_bounds)
  IN  IF prev_intersection.x > 0
      THEN [x |-> 0, y |-> correction_y]
      ELSE IF prev_intersection.y > 0
      THEN [x |-> correction_x, y |-> 0]
      ELSE [x |-> IF body.force_x # 0 THEN 0 ELSE correction_x,
            y |-> IF body.is_fall \/ body.is_jump THEN 0 ELSE correction_y]

\* the cells of the two nested loops, in the order they are visited
CellsSpanned(rect) ==
  LET min_x == Shr(rect.bounds.min_x, 7)
      max_x == Shr(rect.bounds.max_x, 7)
      min_y == Shr(rect.bounds.min_y, 7)
      max_y == Shr(rect.bounds.max_y, 7)
      ny == max_y - min_y + 1
      n == (max_x - min_x + 1) * ny
  IN  [k \in 1..n |-> <<min_x + ((k - 1) \div ny), min_y + ((k - 1) % ny)>>]

\* keep, per axis, the correction of strictly greater magnitude
\* KeepGreater that adds the contributions up
KeepGreater_Sum(correction, c) ==
  [x |-> correction.x + c.x, y |-> correction.y + c.y]

KeepGreater(correction, c) ==
  [x |-> IF Abs(c.x) > Abs(correction.x) THEN c.x ELSE correction.x,
   y |-> IF Abs(c.y) > Abs(correction.y) THEN c.y ELSE correction.y]

RECURSIVE CorrectionFrom(_, _, _, _, _, _)
CorrectionFrom(blocks, body, rect, cs, k, correction) ==
  IF k > Len(cs) THEN correction
  ELSE CorrectionFrom(blocks, body, rect, cs, k + 1,
         IF BlockOverlaps(blocks, rect, cs[k][1], cs[k][2])
         THEN KeepGreater(correction,
                          BlockCorrection(body, rect, cs[k][1], cs[k][2]))
         ELSE correction)

PlayerCorrection(blocks, body, rect) ==
  CorrectionFrom(blocks, body, rect, CellsSpanned(rect), 1, [x |-> 0, y |-> 0])

\* the body of the loop over players; the new body and the new rect
correct_player(blocks, body, rect) ==
  LET correction == PlayerCorrection(blocks, body, rect)
  IN  IF correction.x = 0 /\ correction.y = 0
      THEN [body |-> body, rect |-> rect]
      ELSE
        LET b1 == update_correction(body, correction)
            b2 == [b1 EXCEPT !.x = b1.x + correction.x,
                             !.y = b1.y + correction.y]
        IN  [body |-> b2, rect |-> update_rect(b2, rect)]

(***************************************************************************)
(* The inputs the host draws its calls from.                               *)
(***************************************************************************)
Directions == {"None", "Left", "Right"}
\* the elapsed time of a tick, in milliseconds
Deltas == {125, 500}
PlayerCoords == {<<1100, 380>>, <<990, 380>>, <<990, 250>>, <<16, 380>>}
ItemCoords == {<<1010, 300>>, <<0, 64>>}
GroundCell == <<8, 3>>
WallCell == <<7, 2>>
CornerCell == <<0, 0>>
\* three cells of the grid; two coordinates outside the grid that pass the
\* test of block_create and whose index is the index of one of the two
\* cells; one coordinate that fails the test; one whose index is negative
BlockCoords ==
  {GroundCell, WallCell, CornerCell,
   <<CellIndex(GroundCell[1], GroundCell[2]) - CellsHeight * CellsWidth,
     CellsHeight>>,
   <<WallCell[1] - CellsWidth, WallCell[2] + 1>>,
   <<CellsWidth + 1, 0>>, <<-1, 0>>}
BlockIds ==
  {0, 1, CellIndex(GroundCell[1], GroundCell[2]) + 1,
   CellIndex(WallCell[1], WallCell[2]) + 1}
\* the ids the host passes: those of the first bodies and one of no body
BodyIds == {0, 1}

(***************************************************************************)
(* world.rs: World                                                         *)
(***************************************************************************)
VARIABLES
  cells_busy,        \* Cells::busy, the indices of the bits that are set
  cells_blocks,      \* Cells::blocks
  next_body_id,      \* World::next_body_id
  last_update,       \* World::last_update is Some
  grid_pairs,        \* Grid::pairs
  grid_hash,         \* Grid::hash
  ids,               \* World::ids
  rects,             \* World::rects
  items,             \* World::items
  players,           \* World::players
  ids_to_remove,     \* World::ids_to_remove
  pc,                \* the step World::_update is at, "idle" between calls
  delta,             \* the elapsed time of the running tick
  events,            \* the events of the running (or last) tick
  positions_updates, \* the position updates of the last tick
  panicked,          \* the process was aborted by a panic
  start_players,     \* history: players as the running tick found them
  ticks,             \* the number of ticks completed
  applied,           \* the last application of a function on its own:
                     \* its name, its arguments and its result
  run_forced         \* history: for each player that has been on the
                     \* ground, whether a call of run has changed its
                     \* force_x since it last was there

vars ==
  <<cells_busy, cells_blocks, next_body_id, last_update, grid_pairs,
    grid_hash, ids, rects, items, players, ids_to_remove, pc, delta, events,
    positions_updates, panicked, start_players, ticks, applied,
    run_forced>>

cells_vars == <<cells_busy, cells_blocks>>
grid_vars == <<grid_pairs, grid_hash>>
bodies_vars == <<ids, rects, items, players>>
tick_vars ==
  <<pc, delta, events, positions_updates, last_update, start_players, ticks>>

WorldWidth == WidthBlocks * BLOCK_SIZE
WorldHeight == HeightBlocks * BLOCK_SIZE

Grid == [pairs |-> grid_pairs, hash |-> grid_hash, panic |-> FALSE]

Without(f, k) == [j \in DOMAIN f \ {k} |-> f[j]]
With(f, k, v) == [j \in DOMAIN f \cup {k} |-> IF j = k THEN v ELSE f[j]]

EmptyMap == [j \in {} |-> 0]

\* no function has been applied on its own
NoApplication == [op |-> "none"]

\* World::new
Init ==
  /\ cells_busy = {}
  /\ cells_blocks = {}
  /\ next_body_id = 0
  /\ last_update = FALSE
  /\ grid_pairs = EmptyMap
  /\ grid_hash = EmptyMap
  /\ ids = {}
  /\ rects = EmptyMap
  /\ items = EmptyMap
  /\ players = EmptyMap
  /\ ids_to_remove = {}
  /\ pc = "idle"
  /\ delta = 0
  /\ events = <<>>
  /\ positions_updates = <<>>
  /\ panicked = FALSE
  /\ start_players = EmptyMap
  /\ ticks = 0
  /\ applied = NoApplication
  /\ run_forced = EmptyMap

\* a public method can be called: no tick is running and nothing panicked
Callable == pc = "idle" /\ ~panicked

\* run_forced after a step.  It is kept for the players that have been on
\* the ground at least once, and tells whether a call of run has changed
\* their force_x since they last were on the ground; `changed` holds the
\* players whose force_x the step, a call of run, has changed.
RunForcedAfter(changed) ==
  [id \in { i \in DOMAIN players' :
              i \in DOMAIN run_forced \/ players'[i].is_on_ground } |->
     /\ ~players'[id].is_on_ground
     /\ id \in DOMAIN run_forced
     /\ (run_forced[id] \/ id \in changed)]

\* the step is not a call of run
NoRun == run_forced' = RunForcedAfter({})

(***************************************************************************)
(* body/block.rs                                                           *)
(***************************************************************************)
\* the test block_create rejects a coordinate with
block_create_rejects(x, y) == x > CellsWidth \/ y > CellsHeight

\* the id World::block_create returns (when it returns)
block_create_id(x, y) ==
  IF block_create_rejects(x, y) THEN 0 ELSE y * CellsWidth + x + 1

\* World::block_create
block_create(x, y) ==
  /\ Callable
  /\ IF block_create_rejects(x, y)
     THEN UNCHANGED <<cells_vars, panicked>>
     ELSE IF set_block_panics(x, y)
     THEN /\ panicked' = TRUE
          /\ UNCHANGED cells_vars
     ELSE /\ cells_busy' = set_block(cells_busy, x, y, TRUE)
          /\ cells_blocks' = set_block(cells_blocks, x, y, TRUE)
          /\ UNCHANGED panicked
  /\ UNCHANGED <<next_body_id, grid_vars, bodies_vars, ids_to_remove,
                 tick_vars>>
  /\ UNCHANGED applied
  /\ NoRun

\* World::block_remove
block_remove(id) ==
  /\ Callable
  /\ LET i == id - 1
         x == TruncRem(i, CellsWidth)
         y == TruncDiv(i, CellsWidth)
     IN  IF set_block_panics(x, y)
         THEN /\ panicked' = TRUE
              /\ UNCHANGED cells_vars
         ELSE /\ cells_busy' = set_block(cells_busy, x, y, FALSE)
              /\ cells_blocks' = set_block(cells_blocks, x, y, FALSE)
              /\ UNCHANGED panicked
  /\ UNCHANGED <<next_body_id, grid_vars, bodies_vars, ids_to_remove,
                 tick_vars>>
  /\ UNCHANGED applied
  /\ NoRun

(***************************************************************************)
(* body/item.rs, body/player.rs: the methods of World                      *)
(***************************************************************************)
\* the part item_create and player_create share
body_create(class, x, y, half_width, height) ==
  LET id == next_body_id + 1
      rs == With(rects, id, Rect_new(id, class, x, y, half_width, height))
      added == Grid_add(Grid, id, rs)
  IN  /\ next_body_id' = id
      /\ rects' = added.rects
      /\ grid_pairs' = added.grid.pairs
      /\ grid_hash' = added.grid.hash
      /\ panicked' = added.grid.panic
      /\ ids' = ids \cup {id}
  /\ UNCHANGED applied

\* World::item_create
item_create(x, y) ==
  /\ Callable
  /\ next_body_id < MaxBodies
  /\ body_create("Item", x, y, BODY_ITEM_HALF_WIDTH, BODY_ITEM_HEIGHT)
  /\ items' = With(items, next_body_id + 1, BodyItem_new(x, y))
  /\ UNCHANGED <<cells_vars, players, ids_to_remove, tick_vars>>
  /\ NoRun

\* World::player_create
player_create(x, y) ==
  /\ Callable
  /\ next_body_id < MaxBodies
  /\ Cardinality(DOMAIN players) < MaxPlayers
  /\ body_create("Player", x, y, BODY_PLAYER_HALF_WIDTH, BODY_PLAYER_HEIGHT)
  /\ players' = With(players, next_body_id + 1, BodyPlayer_new(x, y))
  /\ UNCHANGED <<cells_vars, items, ids_to_remove, tick_vars>>
  /\ NoRun

\* World::player_run
player_run(id, direction) ==
  /\ Callable
  /\ players' = IF id \in DOMAIN players
                THEN [players EXCEPT ![id] = run(@, direction)]
                ELSE players
  /\ UNCHANGED <<cells_vars, next_body_id, grid_vars, ids, rects, items,
                 ids_to_remove, tick_vars, panicked>>
  /\ UNCHANGED applied
  /\ run_forced' = RunForcedAfter(
       { i \in DOMAIN players \cap {id} :
           ~players[i].is_on_ground
             /\ players'[i].force_x # players[i].force_x })

\* World::player_jump
player_jump(id) ==
  /\ Callable
  /\ players' = IF id \in DOMAIN players
                THEN [players EXCEPT ![id] = jump(@)]
                ELSE players
  /\ UNCHANGED <<cells_vars, next_body_id, grid_vars, ids, rects, items,
                 ids_to_remove, tick_vars, panicked>>
  /\ UNCHANGED applied
  /\ NoRun

\* remove that takes the id out of ids at once
remove_Eager(id) ==
  /\ Callable
  /\ ids_to_remove' = ids_to_remove \cup {id}
  /\ ids' = ids \ {id}
  /\ UNCHANGED <<cells_vars, next_body_id, grid_vars, rects, items, players,
                 tick_vars, panicked>>
  /\ UNCHANGED applied
  /\ NoRun

\* World::remove
remove(id) ==
  /\ Callable
  /\ ids_to_remove' = ids_to_remove \cup {id}
  /\ UNCHANGED <<cells_vars, next_body_id, grid_vars, bodies_vars,
                 tick_vars, panicked>>
  /\ UNCHANGED applied
  /\ NoRun

(***************************************************************************)
(* world.rs: the steps of World::_update                                   *)
(***************************************************************************)
World == [rects |-> rects, players |-> players, items |-> items,
          grid |-> Grid, ids |-> ids]

\* clear_one that leaves the id in ids
clear_one_KeepsId(w, id) ==
  IF id \notin DOMAIN w.rects THEN w
  ELSE
    LET rect == w.rects[id]
    IN  [rects |-> Without(w.rects, id),
         players |-> IF rect.class = "Player"
                     THEN Without(w.players, id) ELSE w.players,
         items |-> IF rect.class = "Item"
                   THEN Without(w.items, id) ELSE w.items,
         grid |-> IF rect.class \in {"Player", "Item"}
                  THEN Grid_remove(w.grid, rect)
                  ELSE GridAbort(w.grid),
         ids |-> w.ids]

\* the body of the loop of step_clear
clear_one(w, id) ==
  IF id \notin DOMAIN w.rects THEN w
  ELSE
    LET rect == w.rects[id]
    IN  [rects |-> Without(w.rects, id),
         players |-> IF rect.class = "Player"
                     THEN Without(w.players, id) ELSE w.players,
         items |-> IF rect.class = "Item"
                   THEN Without(w.items, id) ELSE w.items,
         grid |-> IF rect.class \in {"Player", "Item"}
                  THEN Grid_remove(w.grid, rect)
                  ELSE GridAbort(w.grid),
         ids |-> w.ids \ {id}]

RECURSIVE clear_from(_, _, _)
clear_from(w, order, k) ==
  IF k > Len(order) THEN w
  ELSE clear_from(clear_one(w, order[k]), order, k + 1)

\* World::step_clear, the pending ids taken in the given order
step_clear(w, order) == clear_from(w, order, 1)

\* a flush that forgets the pending ids without clearing them
Flush_Forgets ==
  /\ UNCHANGED <<rects, players, items, grid_pairs, grid_hash, panicked, ids>>
  /\ ids_to_remove' = {}

\* the two `if !self.ids_to_remove.is_empty() { self.step_clear() }`
Flush ==
  \E order \in Orders(ids_to_remove) :
    LET w == step_clear(World, order)
    IN  /\ rects' = w.rects
        /\ players' = w.players
        /\ items' = w.items
        /\ grid_pairs' = w.grid.pairs
        /\ grid_hash' = w.grid.hash
        /\ panicked' = w.grid.panic
        /\ ids' = w.ids
        /\ ids_to_remove' = {}

\* OutOfWorld without the test of the bottom edge
OutOfWorld_NoBottom(bounds) ==
  \/ bounds.min_x < 0
  \/ bounds.max_x > WorldWidth
  \/ bounds.min_y < 0

\* World::_update up to the first flush; dt is what last_update.elapsed()
\* yields, zero when last_update is None
update_begin(dt) ==
  /\ Callable
  /\ ticks < MaxTicks
  /\ IF last_update THEN dt \in Deltas ELSE dt = 0
  /\ delta' = dt
  /\ pc' = "update_positions"
  /\ Flush
  /\ start_players' = players'
  /\ UNCHANGED <<cells_vars, next_body_id, last_update, events,
                 positions_updates, ticks>>
  /\ UNCHANGED applied
  /\ NoRun

OutOfWorld(bounds) ==
  \/ bounds.min_x < 0
  \/ bounds.max_x > WorldWidth
  \/ bounds.min_y < 0
  \/ bounds.max_y > WorldHeight

OutOfWorldEvent(id) ==
  [class |-> "OutOfWorld", body_id |-> id, trigger_id |-> 0]

\* the events update_positions_typed pushes, the players taken in order
RECURSIVE OutOfWorldEvents(_, _, _)
OutOfWorldEvents(rs, order, k) ==
  IF k > Len(order) THEN <<>>
  ELSE (IF OutOfWorld(rs[order[k]].bounds)
        THEN <<OutOfWorldEvent(order[k])>> ELSE <<>>)
       \o OutOfWorldEvents(rs, order, k + 1)

\* World::step_update_positions
step_update_positions ==
  /\ pc = "update_positions" /\ ~panicked
  /\ IF \E id \in DOMAIN players : id \notin DOMAIN rects
     THEN /\ panicked' = TRUE
          /\ UNCHANGED <<players, rects, ids_to_remove, events>>
     ELSE
       LET upd == [id \in DOMAIN players |->
                     BodyPlayer_update(players[id], delta, rects[id])]
           rs == [id \in DOMAIN rects |->
                    IF id \in DOMAIN players THEN upd[id].rect
                    ELSE rects[id]]
       IN  /\ players' = [id \in DOMAIN players |-> upd[id].body]
           /\ rects' = rs
           /\ ids_to_remove' = ids_to_remove \cup
                { id \in DOMAIN players : OutOfWorld(rs[id].bounds) }
           /\ \E order \in Orders(DOMAIN players) :
                events' = events \o OutOfWorldEvents(rs, order, 1)
           /\ UNCHANGED panicked
  /\ pc' = "clear"
  /\ UNCHANGED <<cells_vars, next_body_id, last_update, grid_vars, ids,
                 items, delta, positions_updates, ticks,
                 start_players>>
  /\ UNCHANGED applied
  /\ NoRun

\* the second flush of World::_update
update_clear ==
  /\ pc = "clear" /\ ~panicked
  /\ Flush
  /\ pc' = "broadphase"
  /\ UNCHANGED <<cells_vars, next_body_id, last_update, delta, events,
                 positions_updates, ticks,
                 start_players>>
  /\ UNCHANGED applied
  /\ NoRun

RECURSIVE broadphase_from(_, _, _)
broadphase_from(gr, order, k) ==
  IF k > Len(order) THEN gr
  ELSE broadphase_from(Grid_update(gr.grid, order[k], gr.rects),
                       order, k + 1)

\* World::step_broadphase
step_broadphase ==
  /\ pc = "broadphase" /\ ~panicked
  /\ \E order \in Orders(ids) :
       LET gr == broadphase_from([grid |-> Grid, rects |-> rects], order, 1)
       IN  /\ rects' = gr.rects
           /\ grid_pairs' = gr.grid.pairs
           /\ grid_hash' = gr.grid.hash
           /\ panicked' = gr.grid.panic
  /\ pc' = "detect"
  /\ UNCHANGED <<cells_vars, next_body_id, last_update, ids, items, players,
                 ids_to_remove, delta, events, positions_updates, ticks,
                 start_players>>
  /\ UNCHANGED applied
  /\ NoRun

\* PairEvents that looks at the class of the first body of the pair only
PairEvents_FirstOnly(rs, pair) ==
  LET rect1 == rs[pair.id1]
      rect2 == rs[pair.id2]
      intersection == get_bounds_intersection(rect1.bounds, rect2.bounds)
  IN  IF intersection.x <= 0 \/ intersection.y <= 0 THEN <<>>
      ELSE IF rect1.class = "Sensor"
      THEN <<[class |-> "Sensor", body_id |-> rect2.id,
              trigger_id |-> rect1.id]>>
      ELSE IF rect1.class = "Item" /\ rect2.class = "Player"
      THEN <<[class |-> "Item", body_id |-> rect2.id,
              trigger_id |-> rect1.id]>>
      ELSE <<>>

\* the event step_detect pushes for one pair, as a sequence of 0 or 1 events
PairEvents(rs, pair) ==
  LET rect1 == rs[pair.id1]
      rect2 == rs[pair.id2]
      intersection == get_bounds_intersection(rect1.bounds, rect2.bounds)
  IN  IF intersection.x <= 0 \/ intersection.y <= 0 THEN <<>>
      ELSE IF rect1.class = "Sensor"
      THEN <<[class |-> "Sensor", body_id |-> rect2.id,
              trigger_id |-> rect1.id]>>
      ELSE IF rect1.class = "Item" /\ rect2.class = "Player"
      THEN <<[class |-> "Item", body_id |-> rect2.id,
              trigger_id |-> rect1.id]>>
      ELSE IF rect2.class = "Sensor"
      THEN <<[class |-> "Sensor", body_id |-> rect1.id,
              trigger_id |-> rect2.id]>>
      ELSE IF rect2.class = "Item" /\ rect1.class = "Player"
      THEN <<[class |-> "Item", body_id |-> rect1.id,
              trigger_id |-> rect2.id]>>
      ELSE <<>>

RECURSIVE DetectEvents(_, _, _, _)
DetectEvents(rs, prs, order, k) ==
  IF k > Len(order) THEN <<>>
  ELSE PairEvents(rs, prs[order[k]]) \o DetectEvents(rs, prs, order, k + 1)

\* World::step_detect
step_detect ==
  /\ pc = "detect" /\ ~panicked
  /\ IF \E p \in DOMAIN grid_pairs :
          \/ grid_pairs[p].id1 \notin DOMAIN rects
          \/ grid_pairs[p].id2 \notin DOMAIN rects
     THEN panicked' = TRUE /\ UNCHANGED events
     ELSE /\ \E order \in Orders(DOMAIN grid_pairs) :
               events' = events \o DetectEvents(rects, grid_pairs, order, 1)
          /\ UNCHANGED panicked
  /\ pc' = "correct"
  /\ UNCHANGED <<cells_vars, next_body_id, last_update, grid_vars,
                 bodies_vars, ids_to_remove, delta, positions_updates, ticks,
                 start_players>>
  /\ UNCHANGED applied
  /\ NoRun

\* World::step_correct
step_correct ==
  /\ pc = "correct" /\ ~panicked
  /\ IF \E id \in DOMAIN players : id \notin DOMAIN rects
     THEN panicked' = TRUE /\ UNCHANGED <<players, rects>>
     ELSE
       LET cor == [id \in DOMAIN players |->
                     correct_player(cells_blocks, players[id], rects[id])]
       IN  /\ players' = [id \in DOMAIN players |-> cor[id].body]
           /\ rects' = [id \in DOMAIN rects |->
                          IF id \in DOMAIN players THEN cor[id].rect
                          ELSE rects[id]]
           /\ UNCHANGED panicked
  /\ pc' = "finish"
  /\ UNCHANGED <<cells_vars, next_body_id, last_update, grid_vars, ids,
                 items, ids_to_remove, delta, events, positions_updates,
                 ticks,
                 start_players>>
  /\ UNCHANGED applied
  /\ NoRun

\* Moved that compares x only
Moved_XOnly(body) == body.x # body.prev_x

\* whether step_finish reports the body: its position is not its previous one
Moved(body) == ~(body.x = body.prev_x /\ body.y = body.prev_y)

\* the body of the loop of step_finish, for the body itself
\* finish_body that records the previous x only
finish_body_KeepsPrevY(body) ==
  LET b1 == after_update(body)
  IN  IF Moved(b1) THEN [b1 EXCEPT !.prev_x = b1.x] ELSE b1

finish_body(body) ==
  LET b1 == after_update(body)
  IN  IF Moved(b1) THEN [b1 EXCEPT !.prev_x = b1.x, !.prev_y = b1.y] ELSE b1

RECURSIVE PositionUpdates(_, _, _)
PositionUpdates(ps, order, k) ==
  IF k > Len(order) THEN <<>>
  ELSE (IF Moved(after_update(ps[order[k]]))
        THEN <<[id |-> order[k], x |-> ps[order[k]].x,
                y |-> ps[order[k]].y]>>
        ELSE <<>>)
       \o PositionUpdates(ps, order, k + 1)

\* World::step_finish and the end of World::_update
step_finish ==
  /\ pc = "finish" /\ ~panicked
  /\ IF \E id \in DOMAIN players :
          Moved(after_update(players[id])) /\ id \notin DOMAIN rects
     THEN panicked' = TRUE /\ UNCHANGED <<players, rects, positions_updates>>
     ELSE /\ players' = [id \in DOMAIN players |-> finish_body(players[id])]
          /\ rects' = [id \in DOMAIN rects |->
                         IF id \in DOMAIN players
                            /\ Moved(after_update(players[id]))
                         THEN update_rect(players[id], rects[id])
                         ELSE rects[id]]
          /\ \E order \in Orders(DOMAIN players) :
               positions_updates' = PositionUpdates(players, order, 1)
          /\ UNCHANGED panicked
  /\ last_update' = TRUE
  /\ ticks' = ticks + 1
  /\ pc' = "return"
  /\ UNCHANGED <<cells_vars, next_body_id, grid_vars, ids, items,
                 ids_to_remove, delta, events,
                 start_players>>
  /\ UNCHANGED applied
  /\ NoRun

\* World::_update returns: events and positions_updates, locals of the
\* call, are moved to the caller
update_return ==
  /\ pc = "return" /\ ~panicked
  /\ pc' = "idle"
  /\ delta' = 0
  /\ events' = <<>>
  /\ positions_updates' = <<>>
  /\ start_players' = EmptyMap
  /\ UNCHANGED <<cells_vars, next_body_id, last_update, grid_vars,
                 bodies_vars, ids_to_remove, panicked, ticks>>
  /\ UNCHANGED applied
  /\ NoRun

Next ==
  \/ \E c \in BlockCoords : block_create(c[1], c[2])
  \/ \E id \in BlockIds : block_remove(id)
  \/ \E c \in ItemCoords : item_create(c[1], c[2])
  \/ \E c \in PlayerCoords : player_create(c[1], c[2])
  \/ \E id \in BodyIds, direction \in Directions : player_run(id, direction)
  \/ \E id \in BodyIds : player_jump(id)
  \/ \E id \in BodyIds : remove(id)
  \/ \E dt \in Deltas \cup {0} : update_begin(dt)
  \/ step_update_positions
  \/ update_clear
  \/ step_broadphase
  \/ step_detect
  \/ step_correct
  \/ step_finish
  \/ update_return

Spec == Init /\ [][Next]_vars

(***************************************************************************)
(* world.rs: World::_get_possible_build_blocks                             *)
(***************************************************************************)
\* BuildCandidates with a second loop that runs over the corner rows too
BuildCandidates_WithCorners(rect) ==
  LET min_x == Shr(rect.bounds.min_x, 7) - 1
      max_x == Shr(rect.bounds.max_x, 7) + 1
      min_y == Shr(rect.bounds.min_y, 7) - 1
      max_y == Shr(rect.bounds.max_y, 7) + 1
      nx == max_x - min_x + 1
      ny == max_y - min_y + 1
  IN  [k \in 1..(2 * nx) |->
         <<min_x + ((k - 1) \div 2), IF k % 2 = 1 THEN min_y ELSE max_y>>]
      \o
      [k \in 1..(2 * ny) |->
         <<IF k % 2 = 1 THEN min_x ELSE max_x, min_y + ((k - 1) \div 2)>>]

\* the cells the two loops visit, in the order they visit them
BuildCandidates(rect) ==
  LET min_x == Shr(rect.bounds.min_x, 7) - 1
      max_x == Shr(rect.bounds.max_x, 7) + 1
      min_y == Shr(rect.bounds.min_y, 7) - 1
      max_y == Shr(rect.bounds.max_y, 7) + 1
      nx == max_x - min_x + 1
      ny == max_y - min_y - 1
  IN  [k \in 1..(2 * nx) |->
         <<min_x + ((k - 1) \div 2), IF k % 2 = 1 THEN min_y ELSE max_y>>]
      \o
      [k \in 1..(2 * ny) |->
         <<IF k % 2 = 1 THEN min_x ELSE max_x, min_y + 1 + ((k - 1) \div 2)>>]

\* the x and the y of every visited cell that can_build accepts, pushed flat
RECURSIVE BuildableFrom(_, _, _, _)
BuildableFrom(busy, blocks, cs, k) ==
  IF k > Len(cs) THEN <<>>
  ELSE (IF can_build(busy, blocks, cs[k][1], cs[k][2])
        THEN <<cs[k][1], cs[k][2]>> ELSE <<>>)
       \o BuildableFrom(busy, blocks, cs, k + 1)

get_possible_build_blocks(rs, busy, blocks, player_id) ==
  IF player_id \notin DOMAIN rs THEN <<>>
  ELSE BuildableFrom(busy, blocks, BuildCandidates(rs[player_id]), 1)

(***************************************************************************)
(* The cell store on its own: a host that only creates and removes blocks, *)
(* at every coordinate on and around the grid.                             *)
(***************************************************************************)
CellXs == (-1)..(CellsWidth + 1)
CellYs == (-1)..(CellsHeight + 1)
\* 0 and every id block_create can return for these coordinates
AllBlockIds == 0..(CellsHeight * CellsWidth + CellsWidth + 1)

CellsNext ==
  \/ \E x \in CellXs, y \in CellYs :
       /\ Cardinality(cells_blocks) < MaxBlocks
       /\ block_create(x, y)
  \/ \E id \in AllBlockIds : block_remove(id)

CellsSpec == Init /\ [][CellsNext]_vars

(***************************************************************************)
(* Functions on their own: each action applies one function of the program *)
(* to arguments drawn from a set and records the application.              *)
(***************************************************************************)
\* an application leaves the world alone
WorldUnchanged ==
  UNCHANGED <<cells_vars, next_body_id, grid_vars, bodies_vars,
              ids_to_remove, tick_vars, panicked, run_forced>>

\* body ids: the least ones, the greatest ones, and some between
PairIdSamples == {1, 2, 3, MaxSmallId, 1000, MAX_BODY_ID - 1, MAX_BODY_ID}

\* get_pair_id; the encoding of two ids above MaxSmallId needs more than the
\* 31 bits of the integers of the model
apply_get_pair_id(a, b) ==
  /\ Min(a, b) <= MaxSmallId
  /\ applied' = [op |-> "get_pair_id", id1 |-> a, id2 |-> b,
                 result |-> get_pair_id(a, b)]
  /\ WorldUnchanged

\* can_collide
apply_can_collide(class1, class2) ==
  /\ applied' = [op |-> "can_collide", class1 |-> class1,
                 class2 |-> class2,
                 result |-> can_collide(class1, class2)]
  /\ WorldUnchanged

\* the boxes of two bodies: the first fixed, the second overlapping it on
\* both axes, touching it on one axis, or apart from it on one axis
DetectBox1 == Bounds(0, 64, 0, 64)
DetectBoxes2 ==
  {Bounds(32, 96, 32, 96), Bounds(63, 127, -63, 1),
   Bounds(64, 128, 0, 64), Bounds(0, 64, 64, 128),
   Bounds(65, 129, 0, 64), Bounds(0, 64, -100, -36)}

\* the loop body of step_detect for one tracked pair of bodies 1 and 2; the
\* pair holds the two ids in either order
apply_step_detect(class1, class2, bounds2, first) ==
  /\ can_collide(class1, class2)
  /\ LET rs == [id \in {1, 2} |->
                  [id |-> id,
                   class |-> IF id = 1 THEN class1 ELSE class2,
                   bounds |-> IF id = 1 THEN DetectBox1 ELSE bounds2,
                   regions |-> <<1, 0, 0, 0>>, is_updated |-> FALSE]]
         pair == [id1 |-> first, id2 |-> 3 - first, count |-> 1]
     IN  applied' = [op |-> "step_detect", rects |-> rs, pair |-> pair,
                     result |-> PairEvents(rs, pair)]
  /\ WorldUnchanged

\* the elapsed times and the timers of a jump, in milliseconds
JumpTimes == { TimeStep * k : k \in 0..(MaxJumpTime \div TimeStep) }
LaunchHeights == {208, 380}

\* <BodyPlayer as Body>::update of a player that jumped from height y and
\* whose jump_timer is t0, after dt more milliseconds
apply_update(y, t0, dt) ==
  /\ t0 + dt <= MaxJumpTime
  /\ LET grounded == [BodyPlayer_new(990, y) EXCEPT !.is_on_ground = TRUE]
         body == [jump(grounded) EXCEPT !.jump_timer = t0]
         rect == Rect_new(1, "Player", 990, y, BODY_PLAYER_HALF_WIDTH,
                          BODY_PLAYER_HEIGHT)
     IN  applied' = [op |-> "update", before |-> body, dt |-> dt,
                     result |-> BodyPlayer_update(body, dt, rect).body]
  /\ WorldUnchanged

FunNext ==
  \/ \E a, b \in PairIdSamples : apply_get_pair_id(a, b)
  \/ \E c1, c2 \in BodyClasses : apply_can_collide(c1, c2)
  \/ \E c1, c2 \in BodyClasses, b \in DetectBoxes2, first \in {1, 2} :
       apply_step_detect(c1, c2, b, first)
  \/ \E y \in LaunchHeights, t0, dt \in JumpTimes : apply_update(y, t0, dt)

FunSpec == Init /\ [][FunNext]_vars

(***************************************************************************)
(* A crowded world: two players and an item, no blocks.  One player is      *)
(* created over the item, the other with its box across the left edge of   *)
(* the world.                                                              *)
(***************************************************************************)
CrowdPlayerCoords == {<<990, 380>>, <<16, 380>>}
CrowdItemCoords == {<<1010, 300>>}
CrowdIds == 1..MaxCrowd

\* World::item_create, in the crowded world
crowd_item_create(x, y) ==
  /\ Callable
  /\ next_body_id < MaxCrowd
  /\ DOMAIN items = {}
  /\ body_create("Item", x, y, BODY_ITEM_HALF_WIDTH, BODY_ITEM_HEIGHT)
  /\ items' = With(items, next_body_id + 1, BodyItem_new(x, y))
  /\ UNCHANGED <<cells_vars, players, ids_to_remove, tick_vars>>
  /\ NoRun

\* World::player_create, in the crowded world
crowd_player_create(x, y) ==
  /\ Callable
  /\ next_body_id < MaxCrowd
  /\ body_create("Player", x, y, BODY_PLAYER_HALF_WIDTH, BODY_PLAYER_HEIGHT)
  /\ players' = With(players, next_body_id + 1, BodyPlayer_new(x, y))
  /\ UNCHANGED <<cells_vars, items, ids_to_remove, tick_vars>>
  /\ NoRun

CrowdNext ==
  \/ \E c \in CrowdItemCoords : crowd_item_create(c[1], c[2])
  \/ \E c \in CrowdPlayerCoords : crowd_player_create(c[1], c[2])
  \/ \E id \in CrowdIds : remove(id)
  \/ \E dt \in Deltas \cup {0} : update_begin(dt)
  \/ step_update_positions
  \/ update_clear
  \/ step_broadphase
  \/ step_detect
  \/ step_correct
  \/ step_finish
  \/ update_return

CrowdSpec == Init /\ [][CrowdNext]_vars

(***************************************************************************)
(* A low room: a floor block and, two cells above the head of a player     *)
(* standing on it, a ceiling block.                                        *)
(***************************************************************************)
CeilingCell == <<8, 0>>
RoomBlockCoords == {GroundCell, CeilingCell}
RoomPlayerCoords == {<<1100, 380>>}
RoomIds == {1}

RoomNext ==
  \/ \E c \in RoomBlockCoords : block_create(c[1], c[2])
  \/ \E c \in RoomPlayerCoords : player_create(c[1], c[2])
  \/ \E id \in RoomIds, direction \in Directions : player_run(id, direction)
  \/ \E id \in RoomIds : player_jump(id)
  \/ \E dt \in Deltas \cup {0} : update_begin(dt)
  \/ step_update_positions
  \/ update_clear
  \/ step_broadphase
  \/ step_detect
  \/ step_correct
  \/ step_finish
  \/ update_return

RoomSpec == Init /\ [][RoomNext]_vars

(***************************************************************************)
(* The properties checked.                                                 *)
(***************************************************************************)
\* the regions a box occupies: those its four edges reach
RegionsOfBox(bounds) ==
  { RegionList(bounds)[k] : k \in 1..Len(RegionList(bounds)) }

SharedRegions(a, b) ==
  Cardinality(RegionsOfBox(rects[a].bounds) \cap RegionsOfBox(rects[b].bounds))

\* the ids of the blocks of the grid: row * width + column + 1
LiveBlockIds ==
  { i + 1 : i \in cells_blocks \cap (0..(CellsWidth * CellsHeight - 1)) }

\* C1: between two calls, for every two distinct live bodies the pair exists
\* iff their classes are compatible and their current boxes occupy a common
\* region, and its count is the number of regions the boxes have in common.
C1_PairsCountSharedRegions ==
  (pc = "idle" /\ ~panicked) =>
    \A a, b \in ids :
      a < b =>
        LET p == get_pair_id(a, b)
            n == SharedRegions(a, b)
        IN  /\ p \in DOMAIN grid_pairs
                 <=> (can_collide(rects[a].class, rects[b].class) /\ n >= 1)
            /\ p \in DOMAIN grid_pairs => grid_pairs[p].count = n

\* C2: block_create with a coordinate outside the grid returns the zero id
\* and changes no bit of the cell store.
C2_BlockCreateOutsideGridRejected ==
  [][\A c \in BlockCoords :
       (CellOutOfBounds(c[1], c[2]) /\ block_create(c[1], c[2]))
         => /\ ~panicked'
            /\ block_create_id(c[1], c[2]) = 0
            /\ UNCHANGED cells_vars]_vars

\* C3: the ids of the live bodies are positive and no two live bodies, blocks
\* included, carry the same id.
C3_BodyIdsUnique ==
  /\ \A id \in ids \cup LiveBlockIds : id > 0
  /\ ids \cap LiveBlockIds = {}
  /\ DOMAIN players \cap DOMAIN items = {}

\* the box of a player whose position is (x, y)
PlayerBox(x, y) ==
  Bounds(x - BODY_PLAYER_HALF_WIDTH, x + BODY_PLAYER_HALF_WIDTH,
         y - BODY_PLAYER_HEIGHT, y)

\* the cells of the grid that hold a block whose box the given box overlaps
\* (by a positive amount on both axes)
BlocksOverlapping(bounds) ==
  { c \in (0..(CellsWidth - 1)) \X (0..(CellsHeight - 1)) :
      /\ CellIndex(c[1], c[2]) \in cells_blocks
      /\ c[1] * BLOCK_SIZE < bounds.max_x
      /\ bounds.min_x < (c[1] + 1) * BLOCK_SIZE
      /\ c[2] * BLOCK_SIZE < bounds.max_y
      /\ bounds.min_y < (c[2] + 1) * BLOCK_SIZE }

\* the player was grounded and without horizontal intent when the tick began
IdleAtStart(id) ==
  /\ id \in DOMAIN start_players
  /\ start_players[id].is_on_ground
  /\ start_players[id].move_state = "None"

Reported(id) ==
  \E k \in 1..Len(positions_updates) : positions_updates[k].id = id

\* at the end of the tick the player is where the tick found it, unreported
Unmoved(id) ==
  /\ players[id].x = start_players[id].x
  /\ players[id].y = start_players[id].y
  /\ ~Reported(id)

\* one unit below its feet the player meets a block, and its box, lowered by
\* that unit, overlaps no block other than those under its feet
StandsOnBlocks(id) ==
  LET b == start_players[id]
      hit == BlocksOverlapping(PlayerBox(b.x, b.y + 1))
  IN  /\ hit # {}
      /\ \A c \in hit : c[2] * BLOCK_SIZE = b.y

\* C4 as stated: a player grounded and without intent at the start of a tick
\* ends the tick where it started, and no position update is emitted for it.
C4_IdleGroundedPlayerUnmoved ==
  (pc = "return" /\ ~panicked) =>
    \A id \in DOMAIN players : IdleAtStart(id) => Unmoved(id)

\* C4 as amended: the same, for a player whose box, lowered by the one unit
\* of the nudge, overlaps a block under its feet and no other block.
C4_IdleStandingPlayerUnmoved ==
  (pc = "return" /\ ~panicked) =>
    \A id \in DOMAIN players :
      (IdleAtStart(id) /\ StandsOnBlocks(id)) => Unmoved(id)

C4_Witness ==
  /\ pc = "return" /\ ~panicked
  /\ \E id \in DOMAIN players :
       /\ IdleAtStart(id) /\ StandsOnBlocks(id) /\ Unmoved(id)
       /\ delta > 0

\* the box lies outside the world on some axis
BoxOutsideWorld(bounds) ==
  \/ bounds.min_x < 0
  \/ bounds.max_x > WidthBlocks * BLOCK_SIZE
  \/ bounds.min_y < 0
  \/ bounds.max_y > HeightBlocks * BLOCK_SIZE

\* the positions in events of the OutOfWorld events of the body
OutOfWorldReports(id) ==
  { k \in 1..Len(events) :
      events[k].class = "OutOfWorld" /\ events[k].body_id = id }

\* the body is in no part of the state of the world
Absent(id) ==
  /\ id \notin ids
  /\ id \notin DOMAIN rects
  /\ id \notin DOMAIN players
  /\ id \notin DOMAIN items
  /\ \A r \in DOMAIN grid_hash : id \notin grid_hash[r]
  /\ \A p \in DOMAIN grid_pairs :
       grid_pairs[p].id1 # id /\ grid_pairs[p].id2 # id

\* after integration: a player has an OutOfWorld event iff its box is
\* outside the world, then exactly one, with trigger id 0, and it is queued
C5_ReportedWhenOutside ==
  (pc = "clear" /\ ~panicked) =>
    \A id \in DOMAIN players :
      IF BoxOutsideWorld(rects[id].bounds)
      THEN /\ id \in ids_to_remove
           /\ Cardinality(OutOfWorldReports(id)) = 1
           /\ \A k \in OutOfWorldReports(id) : events[k].trigger_id = 0
      ELSE OutOfWorldReports(id) = {}

\* from the second flush to the end of the tick: a body with an OutOfWorld
\* event is in no part of the state
C5_AbsentOnceFlushed ==
  (pc \in {"broadphase", "detect", "correct", "finish", "return"}
   /\ ~panicked) =>
    \A k \in 1..Len(events) :
      events[k].class = "OutOfWorld" =>
        /\ Absent(events[k].body_id)
        /\ Cardinality(OutOfWorldReports(events[k].body_id)) = 1

\* a step reports only players that are live, and a body that has left the
\* state never returns to it; the box of an item never changes
C5_NeverAgain ==
  /\ \A k \in (Len(events) + 1)..Len(events') :
       events'[k].class = "OutOfWorld" =>
         events'[k].body_id \in DOMAIN players
  /\ \A id \in 1..next_body_id : Absent(id) => Absent(id)'
  /\ \A id \in DOMAIN items \cap DOMAIN items' :
       rects'[id].bounds = rects[id].bounds

Integrated(id) ==
  BodyPlayer_update(start_players[id], delta,
                    Rect_new(id, "Player", start_players[id].x,
                             start_players[id].y, BODY_PLAYER_HALF_WIDTH,
                             BODY_PLAYER_HEIGHT)).body

\* the blocks the box of the player overlaps after integration
BlocksEntered(id) == BlocksOverlapping(PlayerBox(Integrated(id).x, Integrated(id).y))

FallingAtStart(id) ==
  /\ id \in DOMAIN start_players
  /\ id \in DOMAIN players
  /\ start_players[id].is_fall

\* at tick start the bottom of the box is at or above the top of the block
\* at cell c: the box does not overlap the block yet
AboveAtStart(id, c) == start_players[id].y <= c[2] * BLOCK_SIZE

\* at tick start the box is above the block and over its column, and after
\* integration its bottom is above the bottom of the block
DirectlyAbove(id, c) ==
  /\ AboveAtStart(id, c)
  /\ start_players[id].x - BODY_PLAYER_HALF_WIDTH < c[1] * BLOCK_SIZE + BLOCK_SIZE
  /\ start_players[id].x + BODY_PLAYER_HALF_WIDTH > c[1] * BLOCK_SIZE
  /\ Integrated(id).y < c[2] * BLOCK_SIZE + BLOCK_SIZE

\* the force of the intent held at the start of the tick
IntentForce(id) ==
  BODY_PLAYER_MOVE_SPEED * direction_num(start_players[id].move_state)

\* the state of a player that has landed
LandedState(id) ==
  /\ players[id].is_on_ground
  /\ ~players[id].is_fall
  /\ ~players[id].is_jump
  /\ players[id].fall_timer = 0
  /\ players[id].jump_timer = 0
  /\ start_players[id].move_state # "None" =>
       players[id].force_x = IntentForce(id)

\* C6, as stated: a falling player whose box, after integration, overlaps a
\* block it was above at tick start is corrected upwards out of the block and
\* ends the tick grounded, not falling, not jumping, timers zero, and with
\* force 750 in the direction of a held intent.
C6_LandingOnFirstOverlap ==
  (pc = "return" /\ ~panicked) =>
    \A id \in DOMAIN players :
      \A c \in BlocksEntered(id) :
        (FallingAtStart(id) /\ AboveAtStart(id, c)) =>
          /\ players[id].y < Integrated(id).y
          /\ players[id].y <= c[2] * BLOCK_SIZE
          /\ LandedState(id)

\* C6, amended: a falling player whose box, after integration, overlaps
\* only blocks that at tick start it was over the column of and above, and
\* whose bottom is still above the bottom of those blocks, is corrected
\* upwards onto their top and ends the tick grounded, not falling, not
\* jumping, timers zero, force 750 in the direction of the intent it holds
\* (zero when it holds none).
C6_LandingFromDirectlyAbove ==
  (pc = "return" /\ ~panicked) =>
    \A id \in DOMAIN players :
      (/\ FallingAtStart(id)
       /\ BlocksEntered(id) # {}
       /\ \A c \in BlocksEntered(id) : DirectlyAbove(id, c)) =>
        /\ \A c \in BlocksEntered(id) : players[id].y = c[2] * BLOCK_SIZE
        /\ players[id].y < Integrated(id).y
        /\ players[id].x = Integrated(id).x
        /\ LandedState(id)
        /\ players[id].force_x = IntentForce(id)

\* a player that fell at half speed lands and leaves at full speed
C6_Witness ==
  /\ pc = "return" /\ ~panicked
  /\ \E id \in DOMAIN players :
       /\ FallingAtStart(id)
       /\ BlocksEntered(id) # {}
       /\ \A c \in BlocksEntered(id) : DirectlyAbove(id, c)
       /\ Abs(start_players[id].force_x) = BODY_PLAYER_MOVE_SPEED \div 2
       /\ Abs(players[id].force_x) = BODY_PLAYER_MOVE_SPEED
       /\ players[id].is_on_ground

\* C7: in every reachable state no player is both jumping and falling, and
\* no player is both grounded and jumping.
C7_FlagsExclusive ==
  \A id \in DOMAIN players :
    /\ ~(players[id].is_jump /\ players[id].is_fall)
    /\ ~(players[id].is_on_ground /\ players[id].is_jump)

\* a jump of a player has ended in a tick: the player fell or landed
C7_Witness ==
  /\ pc = "return" /\ ~panicked
  /\ \E id \in DOMAIN players \cap DOMAIN start_players :
       /\ start_players[id].is_jump
       /\ ~players[id].is_jump
       /\ players[id].is_fall \/ players[id].is_on_ground

\* the state the calls that take an id may not touch when the id is unknown
StateOfBodies == <<bodies_vars, grid_vars, cells_vars>>

\* C8: player_run, player_jump, block_remove and the flush of a removal,
\* given an id that names no live body, do not abort and leave bodies,
\* rects, the index of the broadphase and the cells unchanged.
C8_UnknownIdIsNoOp ==
  [][/\ \A id \in BodyIds :
          (id \notin ids
           /\ (player_jump(id) \/ \E d \in Directions : player_run(id, d)))
            => (~panicked' /\ UNCHANGED StateOfBodies)
     /\ \A id \in BlockIds :
          (id \notin ids \cup LiveBlockIds /\ block_remove(id))
            => (~panicked' /\ UNCHANGED StateOfBodies)
     /\ \A id \in BodyIds :
          (id \notin ids /\ remove(id))
            => (~panicked' /\ UNCHANGED StateOfBodies)
     /\ (ids_to_remove \cap ids = {} /\ \E dt \in Deltas \cup {0} : update_begin(dt))
            => (~panicked' /\ UNCHANGED StateOfBodies)]_vars

\* C9: in every reachable state ids, the keys of rects and the keys of
\* players and items together are the same set, and no id is both a player
\* and an item.
C9_IdsRectsBodiesAgree ==
  /\ ids = DOMAIN rects
  /\ ids = DOMAIN players \cup DOMAIN items
  /\ DOMAIN players \cap DOMAIN items = {}

\* bodies of both classes have been created and one of them removed
C9_Witness ==
  /\ pc = "update_positions"
  /\ next_body_id = MaxBodies
  /\ Cardinality(ids) = 1
  /\ ids = DOMAIN rects

\* a step that takes a body out of the state is a flush of a tick, and the
\* body was pending
DestroyedOnlyByFlush ==
  (ids # ids' \/ DOMAIN rects # DOMAIN rects'
   \/ DOMAIN players # DOMAIN players' \/ DOMAIN items # DOMAIN items') =>
    \/ /\ pc \in {"idle", "clear"}
       /\ pc' \in {"update_positions", "broadphase"}
       /\ ids \ ids' \subseteq ids_to_remove
       /\ ids' \subseteq ids
    \/ /\ pc = "idle" /\ pc' = "idle"
       /\ ids \subseteq ids'
       /\ next_body_id' = next_body_id + 1

\* C10: remove(id) adds id to the pending set and changes nothing else; a
\* body leaves the state only in a flush step of a tick; remove(id) of an id
\* that is pending already changes nothing at all.
C10_RemoveIsDeferred ==
  [][/\ \A id \in BodyIds :
          remove(id) =>
            /\ ids_to_remove' = ids_to_remove \cup {id}
            /\ UNCHANGED <<ids, rects, players, items, grid_hash, grid_pairs,
                           cells_busy, cells_blocks>>
            /\ id \in ids_to_remove => UNCHANGED vars
     /\ DestroyedOnlyByFlush]_vars

\* between two ticks a live body is pending removal
C10_Witness ==
  /\ pc = "idle" /\ ~panicked /\ last_update
  /\ \E id \in ids_to_remove :
       id \in ids /\ id \in DOMAIN rects /\ id \in DOMAIN players

\* the two boxes overlap by a strictly positive amount on both axes
OverlapBothAxes(b1, b2) ==
  /\ Min(b1.max_x, b2.max_x) - Max(b1.min_x, b2.min_x) > 0
  /\ Min(b1.max_y, b2.max_y) - Max(b1.min_y, b2.min_y) > 0

\* the id of the body of the class among the two bodies of the application
DetectedOfClass(class) ==
  CHOOSE id \in {1, 2} : applied.rects[id].class = class

DetectedClasses == { applied.rects[id].class : id \in {1, 2} }

\* the events the pair of the application is to emit
DetectExpected ==
  IF ~OverlapBothAxes(applied.rects[1].bounds, applied.rects[2].bounds)
  THEN <<>>
  ELSE IF "Sensor" \in DetectedClasses
  THEN <<[class |-> "Sensor",
          body_id |-> 3 - DetectedOfClass("Sensor"),
          trigger_id |-> DetectedOfClass("Sensor")]>>
  ELSE IF DetectedClasses = {"Item", "Player"}
  THEN <<[class |-> "Item",
          body_id |-> DetectedOfClass("Player"),
          trigger_id |-> DetectedOfClass("Item")]>>
  ELSE <<>>

\* C11: a tracked pair whose boxes overlap on both axes emits exactly one
\* event, a Sensor event (subject the other body, trigger the sensor) if one
\* body is a Sensor, else an Item event (subject the player, trigger the
\* item) if the pair is Item/Player, whichever body is id1; a pair without
\* such an overlap or of other classes emits none.
C11_OneEventPerOverlappingPair ==
  applied.op = "step_detect" => applied.result = DetectExpected

\* an overlapping Item/Player pair whose first body is the player has
\* emitted its event
C11_Witness ==
  /\ applied.op = "step_detect"
  /\ Len(applied.result) = 1
  /\ applied.rects[applied.pair.id1].class = "Player"
  /\ applied.rects[applied.pair.id2].class = "Item"

\* the positions in positions_updates of the entries of the player
DeltaEntries(id) ==
  { k \in 1..Len(positions_updates) : positions_updates[k].id = id }

\* the position of the player is not the previous position it had at the
\* start of the tick
MovedInTick(id) ==
  \/ players[id].x # start_players[id].prev_x
  \/ players[id].y # start_players[id].prev_y

\* C12: at the end of a tick the delta list has an entry for a live player
\* iff its position differs from the previous position it had at the start
\* of the tick, at most one entry, carrying its final x and y.
C12_DeltaIffMoved ==
  (pc = "return" /\ ~panicked) =>
    /\ \A id \in DOMAIN players :
         /\ Cardinality(DeltaEntries(id)) = (IF MovedInTick(id) THEN 1 ELSE 0)
         /\ \A k \in DeltaEntries(id) :
              /\ positions_updates[k].x = players[id].x
              /\ positions_updates[k].y = players[id].y
    /\ \A k \in 1..Len(positions_updates) :
         positions_updates[k].id \in DOMAIN players

\* a player that fell, was corrected and so ends elsewhere than integration
\* put it has its entry
C12_Witness ==
  /\ pc = "return" /\ ~panicked
  /\ \E id \in DOMAIN players :
       /\ DeltaEntries(id) # {}
       /\ players[id].y # Integrated(id).y
       /\ players[id].x = start_players[id].prev_x

\* the coordinate is one of a cell of the grid
InGrid(x, y) == x >= 0 /\ x < WidthBlocks /\ y >= 0 /\ y < HeightBlocks

\* the bits stored for the cell of the grid
StoredBusy(x, y) == InGrid(x, y) /\ (y * WidthBlocks + x) \in cells_busy
StoredBlock(x, y) == InGrid(x, y) /\ (y * WidthBlocks + x) \in cells_blocks

Neighbours(x, y) == {<<x - 1, y>>, <<x + 1, y>>, <<x, y - 1>>, <<x, y + 1>>}

\* the cells of the grid
GridCells == (0..(WidthBlocks - 1)) \X (0..(HeightBlocks - 1))

\* C13, as stated: a cell can be built on iff it is not busy and one of its
\* four neighbours is a block, so never when no block is adjacent.
C13_BuildableIffBlockAdjacent ==
  \A c \in GridCells :
    can_build(cells_busy, cells_blocks, c[1], c[2])
      <=> /\ ~StoredBusy(c[1], c[2])
          /\ \E n \in Neighbours(c[1], c[2]) : StoredBlock(n[1], n[2])

\* C13, amended: at every coordinate, can_build is true iff the coordinate
\* is of a cell of the grid that is not busy and one of its four neighbours
\* is a block or lies outside the grid.
C13_BuildableIffBlockOrEdgeAdjacent ==
  \A x \in CellXs, y \in CellYs :
    can_build(cells_busy, cells_blocks, x, y)
      <=> /\ InGrid(x, y)
          /\ ~StoredBusy(x, y)
          /\ \E n \in Neighbours(x, y) :
               ~InGrid(n[1], n[2]) \/ StoredBlock(n[1], n[2])

\* next to a block: a free cell away from the edge that can be built on, one
\* that cannot, and a free cell on the edge, without a block next to it, that
\* can
C13_Witness ==
  /\ ~panicked
  /\ \E c \in GridCells :
       /\ \A n \in Neighbours(c[1], c[2]) : InGrid(n[1], n[2])
       /\ \E n \in Neighbours(c[1], c[2]) : StoredBlock(n[1], n[2])
       /\ can_build(cells_busy, cells_blocks, c[1], c[2])
  /\ \E c \in GridCells :
       /\ \A n \in Neighbours(c[1], c[2]) : InGrid(n[1], n[2])
       /\ ~StoredBusy(c[1], c[2])
       /\ ~can_build(cells_busy, cells_blocks, c[1], c[2])
  /\ \E c \in GridCells :
       /\ \A n \in Neighbours(c[1], c[2]) : ~StoredBlock(n[1], n[2])
       /\ can_build(cells_busy, cells_blocks, c[1], c[2])

\* the neighbours of the cell that are block-occupied; what lies outside
\* the grid counts as block-occupied
OccupiedNeighbours(x, y) ==
  { n \in Neighbours(x, y) : ~InGrid(n[1], n[2]) \/ StoredBlock(n[1], n[2]) }

\* C14, as stated: a cell of the grid can be built on iff it is not busy and
\* exactly one of its four neighbours is block-occupied.
C14_BuildableIffExactlyOne ==
  \A c \in GridCells :
    can_build(cells_busy, cells_blocks, c[1], c[2])
      <=> /\ ~StoredBusy(c[1], c[2])
          /\ Cardinality(OccupiedNeighbours(c[1], c[2])) = 1

\* C14, amended: a cell of the grid can be built on iff it is not busy and
\* at least one of its four neighbours is block-occupied.
C14_BuildableIffAtLeastOne ==
  \A c \in GridCells :
    can_build(cells_busy, cells_blocks, c[1], c[2])
      <=> /\ ~StoredBusy(c[1], c[2])
          /\ Cardinality(OccupiedNeighbours(c[1], c[2])) >= 1

\* a free cell between two blocks can be built on
C14_Witness ==
  /\ ~panicked
  /\ \E c \in GridCells :
       /\ Cardinality({ n \in Neighbours(c[1], c[2]) :
                          StoredBlock(n[1], n[2]) }) = 2
       /\ ~StoredBusy(c[1], c[2])
       /\ can_build(cells_busy, cells_blocks, c[1], c[2])

\* the bit of the cell in busy and in blocks
BitOf(c) == c[2] * WidthBlocks + c[1]

\* distinct cells of the grid have distinct ids
C15_DistinctIds ==
  \A c, d \in GridCells :
    block_create_id(c[1], c[2]) = block_create_id(d[1], d[2]) => c = d

\* block_create and block_remove of a cell of the grid
C15_Step ==
  \A c \in GridCells :
    /\ block_create(c[1], c[2]) =>
         /\ ~panicked'
         /\ block_create_id(c[1], c[2]) = BitOf(c) + 1
         /\ cells_busy' = cells_busy \cup {BitOf(c)}
         /\ cells_blocks' = cells_blocks \cup {BitOf(c)}
    /\ block_remove(BitOf(c) + 1) =>
         /\ ~panicked'
         /\ cells_busy' = cells_busy \ {BitOf(c)}
         /\ cells_blocks' = cells_blocks \ {BitOf(c)}

\* C15: for every cell (x, y) of the grid, block_create(x, y) returns
\* y * width + x + 1 and sets the blocks and busy bits of that cell only,
\* block_remove of that id clears the bits of that cell only, and distinct
\* cells have distinct ids.
C15_BlockIdNamesItsCell == []C15_DistinctIds /\ [][C15_Step]_vars

\* the block of a cell in the middle of the grid is the only one
C15_Witness ==
  /\ ~panicked
  /\ \E c \in GridCells :
       /\ c[1] > 0 /\ c[2] > 0
       /\ cells_blocks = {BitOf(c)}
       /\ cells_busy = {BitOf(c)}

\* C16: at a coordinate outside the grid is_busy and is_block are true,
\* whatever the store holds; at a coordinate of the grid they are the stored
\* bit of that cell.
C16_OutsideIsBusyAndBlock ==
  \A x \in CellXs, y \in CellYs :
    IF x < 0 \/ x >= WidthBlocks \/ y < 0 \/ y >= HeightBlocks
    THEN /\ is_busy(cells_busy, x, y)
         /\ is_block(cells_blocks, x, y)
    ELSE /\ is_busy(cells_busy, x, y) <=> (y * WidthBlocks + x) \in cells_busy
         /\ is_block(cells_blocks, x, y)
              <=> (y * WidthBlocks + x) \in cells_blocks

\* the store holds a block of the grid and a bit beyond the cells of the grid
C16_Witness ==
  /\ ~panicked
  /\ \E c \in GridCells : StoredBlock(c[1], c[2])
  /\ \E i \in cells_blocks : i >= WidthBlocks * HeightBlocks

\* the cells a box touches, one more cell on every side, and of those the
\* cells of the outer ring
FootprintXs(b) == (b.min_x \div BLOCK_SIZE)..(b.max_x \div BLOCK_SIZE)
FootprintYs(b) == (b.min_y \div BLOCK_SIZE)..(b.max_y \div BLOCK_SIZE)
ExpandedBorder(b) ==
  LET xs == FootprintXs(b)
      ys == FootprintYs(b)
      x0 == (b.min_x \div BLOCK_SIZE) - 1
      x1 == (b.max_x \div BLOCK_SIZE) + 1
      y0 == (b.min_y \div BLOCK_SIZE) - 1
      y1 == (b.max_y \div BLOCK_SIZE) + 1
  IN  { c \in (x0..x1) \X (y0..y1) : c[1] \notin xs \/ c[2] \notin ys }

\* a flat list <<x, y, x, y, ...>> read as coordinate pairs
CoordinatePairs(flat) ==
  [k \in 1..(Len(flat) \div 2) |-> <<flat[2 * k - 1], flat[2 * k]>>]

\* the ids a host may ask about: the ids of the bodies and two of no body
QueriedIds == 0..(MaxBodies + 1)

\* the answer of the query in the current state
BuildBlocksOf(id) ==
  get_possible_build_blocks(rects, cells_busy, cells_blocks, id)

\* C17: for a live player, get_possible_build_blocks returns an even number
\* of coordinates that, read as pairs, are exactly the cells of the border
\* of the footprint expanded by one cell that satisfy can_build, each once,
\* none of them busy or outside the grid; for an id of no body it returns
\* the empty list.
C17_BuildBlocksAreBuildableBorder ==
  Callable =>
    \A id \in QueriedIds :
      LET flat == BuildBlocksOf(id)
          cs == CoordinatePairs(flat)
      IN  /\ (id \in DOMAIN players /\ id \in DOMAIN rects) =>
               /\ Len(flat) = 2 * Len(cs)
               /\ { cs[k] : k \in DOMAIN cs }
                    = { c \in ExpandedBorder(rects[id].bounds) :
                          can_build(cells_busy, cells_blocks, c[1], c[2]) }
               /\ \A j, k \in DOMAIN cs : cs[j] = cs[k] => j = k
               /\ \A k \in DOMAIN cs :
                    /\ InGrid(cs[k][1], cs[k][2])
                    /\ ~StoredBusy(cs[k][1], cs[k][2])
          /\ id \notin DOMAIN rects => flat = <<>>

\* a live player whose border holds a block, left out of the answer, and a
\* free cell beside a block, returned; an id of no body is asked about too
C17_Witness ==
  /\ Callable
  /\ \E id \in DOMAIN players :
       /\ id \in DOMAIN rects
       /\ \E c \in ExpandedBorder(rects[id].bounds) : StoredBusy(c[1], c[2])
       /\ \E k \in DOMAIN CoordinatePairs(BuildBlocksOf(id)) :
            LET c == CoordinatePairs(BuildBlocksOf(id))[k]
            IN  \E n \in Neighbours(c[1], c[2]) : StoredBlock(n[1], n[2])
  /\ \E id \in QueriedIds : id \notin DOMAIN rects

\* C18: get_pair_id of two body ids is get_pair_id of the same two ids in
\* the other order.
C18_PairIdCommutative ==
  applied.op = "get_pair_id" =>
    /\ applied.id1 \in 1..MAX_BODY_ID
    /\ applied.id2 \in 1..MAX_BODY_ID
    /\ applied.result = get_pair_id(applied.id2, applied.id1)

\* the pair id of the greatest id and a smaller one, the greater id first
C18_Witness ==
  /\ applied.op = "get_pair_id"
  /\ applied.id1 = MAX_BODY_ID
  /\ applied.id2 < applied.id1
  /\ applied.result = applied.id2 * 67108864 + applied.id1

\* the pairs of classes the table lists, one way round
ListedWith(class) ==
  CASE class = "Player" -> BodyClasses \ {"Player"}
    [] class = "Sensor" -> {"Player"}
    [] class = "Ray"    -> {"Fixed", "Player"}
    [] class = "Item"   -> {"Fixed", "Player"}
    [] class = "Bullet" -> {"Fixed", "Player"}
    [] class = "Fixed"  -> {"Player", "Ray", "Item", "Bullet"}

\* C19: can_collide(c1, c2) is true exactly when the table lists c2 for c1,
\* never for a class with itself, and it is can_collide(c2, c1).
C19_CanCollideIsTheTable ==
  applied.op = "can_collide" =>
    /\ applied.result <=> (applied.class2 \in ListedWith(applied.class1))
    /\ applied.class1 = applied.class2 => ~applied.result
    /\ applied.result <=> can_collide(applied.class2, applied.class1)

\* Fixed asked about Bullet: admitted
C19_Witness ==
  /\ applied.op = "can_collide"
  /\ applied.class1 = "Fixed"
  /\ applied.class2 = "Bullet"
  /\ applied.result

\* 0.001 * (t - 400)^2 without its fractional part (the square is not
\* negative, so toward zero is downward)
ParabolaTrunc(t) == ((t - 400) * (t - 400)) \div 1000

\* C20: the height of a jumping player after the integration that brings
\* its jump timer to t is launch + trunc(0.001 * (t - 400)^2) - 160: the
\* launch height at t = 0, 160 above it at t = 400, the launch height again
\* at t = 800; the vertical direction is -1 for t <= 400 and 1 for t > 400.
C20_JumpHeightIsTheParabola ==
  (applied.op = "update" /\ applied.before.is_jump) =>
    LET t == applied.before.jump_timer + applied.dt
        launch == applied.before.last_ground_y
        after == applied.result
    IN  /\ after.jump_timer = t
        /\ after.y = launch + ParabolaTrunc(t) - 160
        /\ t = 0 => after.y = launch
        /\ t = 400 => after.y = launch - 160
        /\ t = 800 => after.y = launch
        /\ after.move_dir_y = IF t <= 400 THEN -1 ELSE 1

\* a jump from where the player stood, integrated to a time after the apex
\* at which the product has a fractional part
C20_Witness ==
  /\ applied.op = "update"
  /\ applied.before.is_jump
  /\ applied.before.last_ground_y = applied.before.y
  /\ applied.dt > 0
  /\ applied.result.jump_timer > 400
  /\ ((applied.result.jump_timer - 400) * (applied.result.jump_timer - 400))
       % 1000 # 0
  /\ applied.result.move_dir_y = 1

\* the ids held in a pair, and the ids held in a region bucket
PairedIds ==
  { grid_pairs[p].id1 : p \in DOMAIN grid_pairs }
    \cup { grid_pairs[p].id2 : p \in DOMAIN grid_pairs }
BucketedIds == UNION { grid_hash[r] : r \in DOMAIN grid_hash }

\* every id the grid or a body map holds has a Rect record
TrackedHaveRecords ==
  /\ PairedIds \subseteq DOMAIN rects
  /\ BucketedIds \subseteq DOMAIN rects
  /\ DOMAIN players \subseteq DOMAIN rects
  /\ DOMAIN items \subseteq DOMAIN rects

\* a step that panics is a call of the cell store; none of the steps that
\* look records up (the creation of a body, a flush, the steps of a tick)
\* panics
PanicsOnlyInCells ==
  (~panicked /\ panicked') =>
    \/ \E c \in BlockCoords : block_create(c[1], c[2])
    \/ \E id \in BlockIds : block_remove(id)

\* C21: in every state, between calls and inside a tick, every id in a pair
\* or in a bucket and every key of players and items has a Rect record, and
\* no lookup of add, update, remove, detection, integration or correction
\* panics on a missing record.
C21_TrackedIdsHaveRecords == []TrackedHaveRecords /\ [][PanicsOnlyInCells]_vars

\* nothing of the body is left: no record, no bucket, no pair
Gone(id) ==
  /\ id \notin ids
  /\ id \notin DOMAIN rects
  /\ id \notin DOMAIN players
  /\ id \notin DOMAIN items
  /\ id \notin BucketedIds
  /\ id \notin PairedIds

\* the steps of a tick after its second flush
AfterFlushes == pc \in {"broadphase", "detect", "correct", "finish", "return"}

\* each of the two flushes of a tick leaves nothing of the bodies whose
\* removal is pending
FlushRemovesPending ==
  (pc \in {"idle", "clear"} /\ pc' \in {"update_positions", "broadphase"}
     /\ ~panicked') =>
    \A id \in ids_to_remove : Gone(id)'

\* inside a tick no body comes back
NoneComesBack ==
  pc # "idle" => (DOMAIN rects' \subseteq DOMAIN rects /\ ids' \subseteq ids)

\* once the second flush is done nothing is pending, the bodies that left the
\* world are gone, every Sensor and Item event and every position delta is
\* about live bodies, and no OutOfWorld event follows a Sensor or Item event
DetectionAfterFlush ==
  (AfterFlushes /\ ~panicked) =>
    /\ ids_to_remove = {}
    /\ \A k \in DOMAIN events :
         IF events[k].class = "OutOfWorld"
         THEN Gone(events[k].body_id)
         ELSE /\ ~Gone(events[k].body_id)
              /\ ~Gone(events[k].trigger_id)
              /\ events[k].body_id \in DOMAIN rects
              /\ events[k].trigger_id \in DOMAIN rects
    /\ \A k \in DOMAIN positions_updates :
         pc = "return" => positions_updates[k].id \in DOMAIN players
    /\ \A j, k \in DOMAIN events :
         (events[j].class # "OutOfWorld" /\ events[k].class = "OutOfWorld")
           => k < j

\* C22: within a tick removal is flushed before broadphase and detection: a
\* body whose removal was pending when the tick began, or that left the world
\* in the integration of the tick, is in no bucket and no pair when broadphase
\* and detection run, is in no Sensor or Item event and has no position delta
\* in that tick, and every OutOfWorld event precedes every Sensor and Item
\* event of the tick.
C22_RemovalFlushedBeforeDetection ==
  /\ []DetectionAfterFlush
  /\ [][FlushRemovesPending /\ NoneComesBack]_vars

\* the end of a tick whose events are an OutOfWorld event of one player and,
\* after it, an Item event of another
C22_Witness ==
  /\ pc = "return" /\ ~panicked
  /\ \E j, k \in DOMAIN events :
       /\ events[j].class = "OutOfWorld"
       /\ events[k].class = "Item"
       /\ j < k
       /\ Gone(events[j].body_id)

\* a body has just been created and indexed
Created == next_body_id' = next_body_id + 1 /\ ~panicked'

\* C23: the region ids written for the box of a body are non-zero in every
\* used slot (zero only fills the slots after the last used one), so that
\* Grid::add puts the body in the bucket of every region its box touches.
C23_UsedRegionSlotsNonZero ==
  [][Created =>
       LET id == next_body_id'
           touched == RegionList(rects'[id].bounds)
           written == rects'[id].regions
       IN  /\ \A k \in 1..4 :
                IF k <= Len(touched)
                THEN written[k] = touched[k] /\ written[k] # EMPTY_REGION
                ELSE written[k] = EMPTY_REGION
           /\ \A k \in 1..Len(touched) :
                /\ touched[k] \in DOMAIN grid_hash'
                /\ id \in grid_hash'[touched[k]]]_vars

\* half of the max speed in the direction
HalfSpeed(direction) ==
  CASE direction = "Left" -> -375
    [] direction = "Right" -> 375
    [] direction = "None" -> 0

\* a call of run for a live player that is not on the ground
AirborneRun(id, direction) ==
  /\ player_run(id, direction)
  /\ id \in DOMAIN players
  /\ ~players[id].is_on_ground

\* C24: within one airborne interval of a player the calls of run change
\* force_x at most once: a call with the recorded intent changes nothing; the
\* first call with another intent while the latch is unfired sets force_x to
\* half the max speed in that direction and fires the latch; every later call
\* in the interval records the intent and leaves force_x as it is.
C24_RunForcesOncePerAirborneInterval ==
  [][\A id \in BodyIds, direction \in Directions :
       AirborneRun(id, direction) =>
         LET before == players[id]
             after == players'[id]
         IN  /\ before.move_state = direction => after = before
             /\ before.move_state # direction =>
                  /\ after.move_state = direction
                  /\ IF before.jump_x_setted
                     THEN after.force_x = before.force_x
                     ELSE /\ after.force_x = HalfSpeed(direction)
                          /\ after.jump_x_setted
             /\ (id \in DOMAIN run_forced /\ run_forced[id]) =>
                  after.force_x = before.force_x]_vars

\* the overlap of two boxes on each axis, positive when they truly overlap
OverlapX(a, b) ==
  (IF a.max_x < b.max_x THEN a.max_x ELSE b.max_x)
    - (IF a.min_x > b.min_x THEN a.min_x ELSE b.min_x)
OverlapY(a, b) ==
  (IF a.max_y < b.max_y THEN a.max_y ELSE b.max_y)
    - (IF a.min_y > b.min_y THEN a.min_y ELSE b.min_y)

\* the box of a cell, and the box of a player at its previous position
CellBox(c) ==
  [min_x |-> c[1] * 128, max_x |-> c[1] * 128 + 128,
   min_y |-> c[2] * 128, max_y |-> c[2] * 128 + 128]
PreviousBox(id) ==
  [min_x |-> players[id].prev_x - 32, max_x |-> players[id].prev_x + 32,
   min_y |-> players[id].prev_y - 208, max_y |-> players[id].prev_y]

\* the blocks the box of the player truly overlaps
OverlappedBlocks(id) ==
  { c \in ((-1)..WidthBlocks) \X ((-1)..HeightBlocks) :
      /\ is_block(cells_blocks, c[1], c[2])
      /\ OverlapX(rects[id].bounds, CellBox(c)) > 0
      /\ OverlapY(rects[id].bounds, CellBox(c)) > 0 }

\* the push out of the block on each axis, signed, before any suppression
PushX(id, c) ==
  IF players[id].x < c[1] * 128 + 64
  THEN -OverlapX(rects[id].bounds, CellBox(c))
  ELSE OverlapX(rects[id].bounds, CellBox(c))
PushY(id, c) ==
  IF rects[id].bounds.max_y < c[2] * 128 + 128
  THEN -OverlapY(rects[id].bounds, CellBox(c))
  ELSE OverlapY(rects[id].bounds, CellBox(c))

\* the fallback rules
FallbackX(id, c) == IF players[id].force_x # 0 THEN 0 ELSE PushX(id, c)
FallbackY(id, c) ==
  IF players[id].is_jump \/ players[id].is_fall THEN 0 ELSE PushY(id, c)

PrevOverlapsX(id, c) == OverlapX(PreviousBox(id), CellBox(c)) > 0
PrevOverlapsY(id, c) == OverlapY(PreviousBox(id), CellBox(c)) > 0

\* the contribution of the block as terrain correction computes it
Contribution(id, c) == BlockCorrection(players[id], rects[id], c[1], c[2])

\* terrain correction is about to run
BeforeCorrection == pc = "correct" /\ ~panicked

\* C25: a block the box of the player truly overlaps contributes zero on an
\* axis on which the previous box of the player overlapped it; the fallback
\* rules apply only when the previous box overlapped it on neither axis.
C25_PreviousOverlapSuppressesItsAxis ==
  BeforeCorrection =>
    \A id \in DOMAIN players : \A c \in OverlappedBlocks(id) :
      /\ PrevOverlapsX(id, c) => Contribution(id, c).x = 0
      /\ PrevOverlapsY(id, c) => Contribution(id, c).y = 0
      /\ (~PrevOverlapsX(id, c) /\ PrevOverlapsY(id, c)) =>
           Contribution(id, c).x = PushX(id, c)
      /\ (PrevOverlapsX(id, c) /\ ~PrevOverlapsY(id, c)) =>
           Contribution(id, c).y = PushY(id, c)
      /\ (~PrevOverlapsX(id, c) /\ ~PrevOverlapsY(id, c)) =>
           /\ Contribution(id, c).x = FallbackX(id, c)
           /\ Contribution(id, c).y = FallbackY(id, c)

\* C25, with the precedence of the horizontal axis: a previous overlap on the
\* horizontal axis suppresses the horizontal contribution and leaves the
\* vertical one whole, whether or not the previous box overlapped the block
\* vertically too; a previous overlap on the vertical axis alone suppresses
\* the vertical contribution and leaves the horizontal one whole; with no
\* previous overlap the fallback rules apply.
C25_HorizontalOverlapTakesPrecedence ==
  BeforeCorrection =>
    \A id \in DOMAIN players : \A c \in OverlappedBlocks(id) :
      Contribution(id, c) =
        IF PrevOverlapsX(id, c)
        THEN [x |-> 0, y |-> PushY(id, c)]
        ELSE IF PrevOverlapsY(id, c)
        THEN [x |-> PushX(id, c), y |-> 0]
        ELSE [x |-> FallbackX(id, c), y |-> FallbackY(id, c)]

\* a player overlaps a block its previous box overlapped on both axes
C25_Witness ==
  /\ BeforeCorrection
  /\ \E id \in DOMAIN players : \E c \in OverlappedBlocks(id) :
       /\ PrevOverlapsX(id, c)
       /\ PrevOverlapsY(id, c)
       /\ Contribution(id, c).y # 0

\* the contributions of the blocks the player overlaps, on each axis
ContributionsX(id) == { Contribution(id, c).x : c \in OverlappedBlocks(id) }
ContributionsY(id) == { Contribution(id, c).y : c \in OverlappedBlocks(id) }

Magnitude(n) == IF n < 0 THEN -n ELSE n

\* v is zero when nothing contributes and otherwise one contribution of the
\* greatest absolute value
GreatestOf(v, contributions) ==
  /\ v \in contributions \cup {0}
  /\ \A c \in contributions : Magnitude(c) <= Magnitude(v)

\* the box derived from the position of a player
BoxOf(player) ==
  [min_x |-> player.x - 32, max_x |-> player.x + 32,
   min_y |-> player.y - 208, max_y |-> player.y]

\* the step of terrain correction, for the players it finds
CorrectionStep == BeforeCorrection /\ pc' # pc /\ ~panicked'

\* C26: the correction applied to a player is, on each axis on its own, the
\* one contribution of greatest absolute value among the blocks it overlaps,
\* zero if none contributes; the position moves by it and the box is the box
\* of the corrected position; when both components are zero the player and
\* its box are left as they were.
C26_Step ==
  CorrectionStep =>
    \A id \in DOMAIN players :
      LET dx == players'[id].x - players[id].x
          dy == players'[id].y - players[id].y
      IN  /\ GreatestOf(dx, ContributionsX(id))
          /\ GreatestOf(dy, ContributionsY(id))
          /\ (dx # 0 \/ dy # 0) => rects'[id].bounds = BoxOf(players'[id])
          /\ (dx = 0 /\ dy = 0) =>
               /\ players'[id] = players[id]
               /\ rects'[id] = rects[id]
C26_CorrectionIsGreatestPerAxis == [][C26_Step]_vars

\* the contribution of a block to the player as integration left it
ContributionAfterIntegration(id, c) ==
  BlockCorrection(Integrated(id),
                  [bounds |-> PlayerBox(Integrated(id).x, Integrated(id).y)],
                  c[1], c[2])

\* correction has run; two blocks contributed on the vertical axis, with
\* different magnitudes, and the player moved by the greater one
C26_Witness ==
  /\ pc = "finish" /\ ~panicked
  /\ \E id \in DOMAIN players \cap DOMAIN start_players :
       \E c1, c2 \in BlocksEntered(id) :
         LET y1 == ContributionAfterIntegration(id, c1).y
             y2 == ContributionAfterIntegration(id, c2).y
         IN  /\ y1 # 0 /\ y2 # 0
             /\ Magnitude(y1) > Magnitude(y2)
             /\ players[id].y - Integrated(id).y = y1

\* terrain correction moved the player in the running tick
CorrectedInTick(id) ==
  \/ players[id].x # Integrated(id).x
  \/ players[id].y # Integrated(id).y

\* the full speed in the direction of an intent
FullSpeed(direction) ==
  IF direction = "Left" THEN -750 ELSE IF direction = "Right" THEN 750 ELSE 0

\* the end of a tick, for the players terrain correction has left
FinishStep == pc = "finish" /\ pc' # pc /\ ~panicked /\ ~panicked'

\* C27: a player terrain correction did not correct ends the tick not
\* grounded; a player that ends correction not grounded, not jumping and not
\* falling ends the tick falling, with fall timer 0, its height as the fall
\* origin and, if an intent is held, the full speed in its direction as
\* horizontal force, the force it had if none is held.
C27_Step ==
  FinishStep =>
    \A id \in DOMAIN players :
      /\ ~CorrectedInTick(id) => ~players'[id].is_on_ground
      /\ (~players[id].is_on_ground /\ ~players[id].is_jump
            /\ ~players[id].is_fall) =>
           /\ players'[id].is_fall
           /\ players'[id].fall_timer = 0
           /\ players'[id].last_ground_y = players[id].y
           /\ players'[id].force_x =
                IF players[id].move_state = "None" THEN players[id].force_x
                ELSE FullSpeed(players[id].move_state)
C27_UncorrectedFallsAtFullSpeed == [][C27_Step]_vars

\* a jump at half speed was ended by a correction that did not ground the
\* player, and the tick ends with the player falling at full speed
C27_Witness ==
  /\ pc = "return" /\ ~panicked
  /\ \E id \in DOMAIN players \cap DOMAIN start_players :
       /\ start_players[id].is_jump
       /\ start_players[id].force_x = -375
       /\ CorrectedInTick(id)
       /\ players[id].is_fall
       /\ players[id].fall_timer = 0
       /\ players[id].last_ground_y = players[id].y
       /\ players[id].move_state = "Left"
       /\ players[id].force_x = -750

\* the player a jump from the ground leaves: every field not named is kept,
\* position and horizontal force among them
Launched(player) ==
  [player EXCEPT !.is_jump = TRUE,
                 !.jump_timer = 0,
                 !.last_ground_y = player.y,
                 !.is_on_ground = FALSE,
                 !.jump_x_setted = (player.move_state \in {"Left", "Right"})]

\* what jump returns for each player the host can call it on
JumpResult ==
  Callable =>
    \A id \in DOMAIN players :
      jump(players[id]) =
        IF players[id].is_on_ground THEN Launched(players[id])
        ELSE players[id]

\* a call of the host that changes a player and keeps its intent is a call
\* of jump on a grounded player, and leaves the launched player
JumpStep ==
  (Callable /\ pc' = pc) =>
    \A id \in DOMAIN players \cap DOMAIN players' :
      (players'[id] # players[id]
         /\ players'[id].move_state = players[id].move_state) =>
        /\ players[id].is_on_ground
        /\ players'[id] = Launched(players[id])

\* C28: jump on a player that is not grounded changes nothing; on a grounded
\* player it sets jumping, the jump timer to 0, the launch height to the
\* current height, clears grounded and fires the latch iff an intent Left or
\* Right is held; position and horizontal force are unchanged.
C28_JumpOnlyFromGround == []JumpResult /\ [][JumpStep]_vars

\* a running player has just jumped from the ground
C28_Witness ==
  /\ Callable
  /\ \E id \in DOMAIN players :
       /\ players[id].is_jump
       /\ players[id].jump_timer = 0
       /\ ~players[id].is_on_ground
       /\ players[id].last_ground_y = players[id].y
       /\ players[id].move_state = "Right"
       /\ players[id].jump_x_setted
       /\ players[id].force_x = 750

\* a tick has ended, or the world is between two ticks
TickEnded == pc \in {"return", "idle"} /\ ~panicked

\* C29: at the end of every tick the previous position of every live player
\* is its position and its box is the box of that position; the previous box
\* terrain correction reads in the next tick is the box the player had when
\* the preceding tick ended.
C29_HistoryIsTheFinalBox ==
  /\ TickEnded =>
       \A id \in DOMAIN players :
         /\ players[id].prev_x = players[id].x
         /\ players[id].prev_y = players[id].y
         /\ id \in DOMAIN rects
         /\ rects[id].bounds = BoxOf(players[id])
  /\ BeforeCorrection =>
       \A id \in DOMAIN players :
         /\ id \in DOMAIN start_players
         /\ PreviousBox(id) = BoxOf(start_players[id])

\* a tick has ended in which terrain correction moved a player that
\* integration had moved
C29_Witness ==
  /\ pc = "return" /\ ~panicked
  /\ \E id \in DOMAIN players \cap DOMAIN start_players :
       /\ CorrectedInTick(id)
       /\ players[id].x # start_players[id].x
       /\ players[id].y # start_players[id].y
       /\ players[id].prev_x = players[id].x
       /\ players[id].prev_y = players[id].y
       /\ rects[id].bounds = BoxOf(players[id])

====
